---- MODULE Spec2Model ----
(***************************************************************************)
(* Model of the Othello engine: Bitboard (othello/bitboard.py) and         *)
(* OthelloBoard (othello/othello_board.py).                                *)
(*                                                                         *)
(* A Bitboard's integer `bits` is represented by the set of the indices of *)
(* its set bits (bit i of the integer is 1 iff i is in the set), so that   *)
(* the arbitrary-precision integers of the source are modelled exactly:    *)
(*   a | b  is  a \cup b,   a & b  is  a \cap b,   a & ~b  is  a \ b,      *)
(*   a >> k is  {i - k : i \in a} restricted to indices >= 0,              *)
(*   a << k is  {i + k : i \in a}.                                         *)
(***************************************************************************)
EXTENDS Integers, Sequences, FiniteSets, TLC

VARIABLES size, black, white, current_player, history, forced_game_over,
          last, base, searches, bitboard, save, game, timer, now, granted

vars == <<size, black, white, current_player, history, forced_game_over,
          last, base, searches, bitboard, save, game, timer, now, granted>>

(***************************************************************************)
(* Bounds of the model.                                                    *)
(***************************************************************************)
\* number of history entries a behaviour may add on top of its opening
MaxPlies == 2
\* how far outside [0, size) the coordinates handed to play() may lie
CoordSlack == 1
\* number of discs set on top of a starting grid (second specification)
MaxDiscs == 2
\* largest board size explored
MaxSize == 8
\* largest depth a search is called with
MaxDepth == 2
\* number of moves played on top of an opening in the AI sessions
MaxAIPlies == 1
\* number of searches called in an AI session
MaxSearches == 1
\* largest size of a stand-alone Bitboard
MaxBitSize == 3
\* number of bits set in a stand-alone Bitboard
MaxBits == 3
\* cells left empty on a tiled board
MaxHoles == 1

(***************************************************************************)
(* Color (othello_board.py) and Direction (bitboard.py).                   *)
(***************************************************************************)
BLACK == "X"
WHITE == "O"
EMPTY == "_"

\* Color.__invert__
Invert(c) == IF c = BLACK THEN WHITE ELSE IF c = WHITE THEN BLACK ELSE "_"

\* the members of Direction, in the order `for shift_dir in Direction` visits them
Direction == <<"NORTH", "SOUTH", "EAST", "WEST",
               "NORTH_EAST", "NORTH_WEST", "SOUTH_EAST", "SOUTH_WEST">>

\* BoardSize: the board sizes the engine accepts
BoardSize == {6, 8, 10, 12}

(***************************************************************************)
(* Bitboard.                                                               *)
(***************************************************************************)
\* Bitboard.__init__: the three masks
mask(n) == 0 .. (n * n - 1)
west_mask(n) == {i \in mask(n) : i % n # 0}
east_mask(n) == {i \in mask(n) : i % n # n - 1}

\* bits >> k and bits << k on non-negative integers
ShiftRight(bits, k) == {i - k : i \in {j \in bits : j >= k}}
ShiftLeft(bits, k) == {i + k : i \in bits}

\* a ^ b on the integers of two bitboards
bit_xor(a, b) == (a \ b) \cup (b \ a)

\* Bitboard.__coords_to_bit_idx
coords_to_bit_idx(x, y, n) == y * n + x

\* Bitboard.__check_bit_idx_is_legal: TRUE iff no IndexError is raised
check_bit_idx_is_legal(bit_idx, n) == 0 <= bit_idx /\ bit_idx < n * n

\* shift_e without the mask that stops a bit from wrapping to the next row
shift_e_wrapping(bits, n) == ShiftLeft(bits, 1) \cap mask(n)

\* Bitboard.__shift_w .. __shift_sw
shift_w(bits, n) == (ShiftRight(bits, 1) \cap east_mask(n)) \cap mask(n)
shift_e(bits, n) == (ShiftLeft(bits, 1) \cap west_mask(n)) \cap mask(n)
shift_n(bits, n) == ShiftRight(bits, n) \cap mask(n)
\* shift_s without the mask that drops the bits shifted past the last row
shift_s_unmasked(bits, n) == ShiftLeft(bits, n)
shift_s(bits, n) == ShiftLeft(bits, n) \cap mask(n)
\* shift_ne without the mask that stops a bit from wrapping to its own row
shift_ne_wrapping(bits, n) == ShiftRight(bits, n - 1) \cap mask(n)
shift_ne(bits, n) == (ShiftRight(bits, n - 1) \cap west_mask(n)) \cap mask(n)
shift_nw(bits, n) == (ShiftRight(bits, n + 1) \cap east_mask(n)) \cap mask(n)
shift_se(bits, n) == (ShiftLeft(bits, n + 1) \cap west_mask(n)) \cap mask(n)
shift_sw(bits, n) == (ShiftLeft(bits, n - 1) \cap east_mask(n)) \cap mask(n)

\* Bitboard.shift
shift(bits, dir, n) ==
    CASE dir = "NORTH" -> shift_n(bits, n)
      [] dir = "SOUTH" -> shift_s(bits, n)
      [] dir = "EAST" -> shift_e(bits, n)
      [] dir = "WEST" -> shift_w(bits, n)
      [] dir = "NORTH_EAST" -> shift_ne(bits, n)
      [] dir = "NORTH_WEST" -> shift_nw(bits, n)
      [] dir = "SOUTH_EAST" -> shift_se(bits, n)
      [] dir = "SOUTH_WEST" -> shift_sw(bits, n)

\* Bitboard.__and__, __or__, __xor__: the bits of the Bitboard returned
bitboard_and(a, b) == a \cap b
bitboard_or(a, b) == a \cup b
bitboard_xor(a, b) == bit_xor(a, b)

\* Bitboard.__invert__, which play uses as `bits_o &= (~capture_mask)`;
\* bitboard.py does not define it, it is taken to be the complement within
\* the mask
bitboard_invert(bits, n) == mask(n) \ bits

\* Bitboard.popcount, the number of set bits; bitboard.py does not define it
popcount(bits) == Cardinality(bits)

\* Bitboard.set(x, y, value): the new bits and the exception raised
Bitboard_set(bb, x, y, value) ==
    LET bit_idx == coords_to_bit_idx(x, y, bb.size)
    IN IF ~check_bit_idx_is_legal(bit_idx, bb.size)
       THEN [bits |-> bb.bits, exc |-> "IndexError"]
       ELSE IF value
            THEN [bits |-> bb.bits \cup {bit_idx}, exc |-> "none"]
            ELSE [bits |-> bb.bits \cap bit_xor(mask(bb.size), {bit_idx}),
                  exc |-> "none"]

\* Bitboard.get(x, y): the value returned and the exception raised
Bitboard_get(bb, x, y) ==
    LET bit_idx == coords_to_bit_idx(x, y, bb.size)
    IN IF ~check_bit_idx_is_legal(bit_idx, bb.size)
       THEN [val |-> FALSE, exc |-> "IndexError"]
       ELSE [val |-> (bb.bits \cap {bit_idx}) # {}, exc |-> "none"]

(***************************************************************************)
(* OthelloBoard.  A board is the record                                    *)
(*   [size, black, white, current_player, history, forced_game_over]       *)
(* and a history entry the tuple <<black, white, x, y, player>>.           *)
(***************************************************************************)
\* OthelloBoard.__init_board: the four starting discs
init_white(n) == {coords_to_bit_idx(n \div 2 - 1, n \div 2 - 1, n),
                  coords_to_bit_idx(n \div 2, n \div 2, n)}
init_black(n) == {coords_to_bit_idx(n \div 2 - 1, n \div 2, n),
                  coords_to_bit_idx(n \div 2, n \div 2 - 1, n)}

\* OthelloBoard.__init__ without black/white arguments
NewBoard(n) == [size |-> n, black |-> init_black(n), white |-> init_white(n),
                current_player |-> BLACK, history |-> <<>>,
                forced_game_over |-> FALSE]

\* an empty mask that looks at the white discs only
empty_mask_of_white(B) == bit_xor(B.white, mask(B.size))

\* OthelloBoard.__empty_mask: (white.bits | black.bits) ^ mask
empty_mask(B) == bit_xor(B.white \cup B.black, mask(B.size))

\* the while loop of line_cap_move for one direction; `empty` is the value
\* of self.__empty_mask(), which the loop recomputes on an unchanged board
RECURSIVE line_cap_move_dir(_, _, _, _, _)
line_cap_move_dir(empty, bits_o, candidates, dir, n) ==
    IF candidates = {} THEN {}
    ELSE LET shifted == shift(candidates, dir, n)
         IN (empty \cap shifted)
            \cup line_cap_move_dir(empty, bits_o, bits_o \cap shifted, dir, n)

\* OthelloBoard.line_cap_move
line_cap_move(B, player) ==
    LET bits_p == IF player = BLACK THEN B.black ELSE B.white
        bits_o == IF player = BLACK THEN B.white ELSE B.black
        empty == empty_mask(B)
    IN UNION {line_cap_move_dir(empty, bits_o,
                                bits_o \cap shift(bits_p, Direction[d], B.size),
                                Direction[d], B.size) : d \in DOMAIN Direction}

\* line_cap's loop keeping a run that no disc of the mover closes
RECURSIVE line_cap_dir_open(_, _, _, _, _, _)
line_cap_dir_open(direction_ptr, direction_mask, bits_o, bits_p, dir, n) ==
    LET ptr == shift(direction_ptr, dir, n)
    IN IF ptr \cap bits_o # {}
       THEN line_cap_dir_open(ptr, direction_mask \cup ptr, bits_o, bits_p, dir, n)
       ELSE direction_mask

\* the `while True` loop of line_cap for one direction
RECURSIVE line_cap_dir(_, _, _, _, _, _)
line_cap_dir(direction_ptr, direction_mask, bits_o, bits_p, dir, n) ==
    LET ptr == shift(direction_ptr, dir, n)
    IN IF ptr \cap bits_o # {}
       THEN line_cap_dir(ptr, direction_mask \cup ptr, bits_o, bits_p, dir, n)
       ELSE IF ptr \cap bits_p # {} THEN direction_mask ELSE {}

\* OthelloBoard.line_cap (for coordinates whose bit index is legal)
line_cap(B, x_coord, y_coord, player) ==
    LET bits_p == IF player = BLACK THEN B.black ELSE B.white
        bits_o == IF player = BLACK THEN B.white ELSE B.black
        position == {coords_to_bit_idx(x_coord, y_coord, B.size)}
    IN position \cup
       UNION {line_cap_dir(position, position, bits_o, bits_p,
                           Direction[d], B.size) : d \in DOMAIN Direction}

\* OthelloBitboard.line_cap (othello_bitboard.py), the while loop for one
\* direction: it runs until direction_ptr is shifted off the board, steps
\* over cells that hold no disc, and ends on the first shift that meets a
\* disc of the mover and none of the opponent
RECURSIVE legacy_line_cap_dir(_, _, _, _, _, _, _)
legacy_line_cap_dir(direction_ptr, direction_mask, cap_mask, bits_o, bits_p, dir, n) ==
    IF direction_ptr = {} THEN cap_mask
    ELSE IF shift(direction_ptr, dir, n) \cap bits_o # {}
         THEN legacy_line_cap_dir(shift(direction_ptr, dir, n),
                                  direction_mask \cup shift(direction_ptr, dir, n),
                                  cap_mask, bits_o, bits_p, dir, n)
         ELSE IF shift(direction_ptr, dir, n) \cap bits_p # {}
              THEN cap_mask \cup direction_mask
              ELSE legacy_line_cap_dir(shift(direction_ptr, dir, n),
                                       direction_mask, cap_mask, bits_o,
                                       bits_p, dir, n)

\* OthelloBitboard.line_cap, the for loop from the d-th direction on: each
\* direction starts with direction_mask and direction_ptr equal to the
\* cap_mask gathered so far
RECURSIVE legacy_line_cap_from(_, _, _, _, _)
legacy_line_cap_from(d, cap_mask, bits_o, bits_p, n) ==
    IF d > Len(Direction) THEN cap_mask
    ELSE legacy_line_cap_from(d + 1,
             legacy_line_cap_dir(cap_mask, cap_mask, cap_mask, bits_o, bits_p,
                                 Direction[d], n),
             bits_o, bits_p, n)

\* OthelloBitboard.line_cap on the position (black, white) of B
legacy_line_cap(B, x, y, player) ==
    legacy_line_cap_from(1, {coords_to_bit_idx(x, y, B.size)},
                         IF player = BLACK THEN B.white ELSE B.black,
                         IF player = BLACK THEN B.black ELSE B.white,
                         B.size)

\* the mover's bitboard left without the capture mask
capture_into_player_dropped(bits_p, capture_mask) == bits_p

\* play, line 271: bits_p |= capture_mask
capture_into_player(bits_p, capture_mask) == bits_p \cup capture_mask

\* the opponent's bitboard left with the captured discs
capture_out_of_opponent_kept(bits_o, capture_mask, n) == bits_o

\* play, line 272: bits_o &= (~capture_mask)
capture_out_of_opponent(bits_o, capture_mask, n) ==
    bits_o \cap bitboard_invert(capture_mask, n)

\* apply_move saving the bitboards in the history after they are updated
apply_move_late_snapshot(B, x_coord, y_coord) ==
    LET player == B.current_player
        capture_mask == line_cap(B, x_coord, y_coord, player)
        bits_p == capture_into_player(
                      IF player = BLACK THEN B.black ELSE B.white, capture_mask)
        bits_o == capture_out_of_opponent(
                      IF player = BLACK THEN B.white ELSE B.black,
                      capture_mask, B.size)
        new_black == IF player = BLACK THEN bits_p ELSE bits_o
        new_white == IF player = BLACK THEN bits_o ELSE bits_p
    IN [B EXCEPT !.history = Append(@, <<new_black, new_white,
                                         x_coord, y_coord, player>>),
                 !.black = new_black,
                 !.white = new_white,
                 !.current_player = Invert(player)]

\* play, lines 264-275: a legal move is recorded and applied, the turn passes
apply_move(B, x_coord, y_coord) ==
    LET player == B.current_player
        capture_mask == line_cap(B, x_coord, y_coord, player)
        state_to_save == <<B.black, B.white, x_coord, y_coord, player>>
        bits_p == capture_into_player(
                      IF player = BLACK THEN B.black ELSE B.white, capture_mask)
        bits_o == capture_out_of_opponent(
                      IF player = BLACK THEN B.white ELSE B.black,
                      capture_mask, B.size)
    IN [B EXCEPT !.history = Append(@, state_to_save),
                 !.black = IF player = BLACK THEN bits_p ELSE bits_o,
                 !.white = IF player = BLACK THEN bits_o ELSE bits_p,
                 !.current_player = Invert(player)]

\* play without the automatic pass
auto_pass_never(B) == B

\* play, lines 277-280: the player to move has no move, a pass is recorded
auto_pass(B) ==
    IF line_cap_move(B, B.current_player) = {}
    THEN [B EXCEPT !.history = Append(@, <<B.black, B.white, -1, -1,
                                           B.current_player>>),
                   !.current_player = Invert(B.current_player)]
    ELSE B

\* the game-over test looking at the player who is not to move
game_over_check_other(B) ==
    IF line_cap_move(B, Invert(B.current_player)) = {} THEN "GameOverException"
    ELSE "none"

\* play, lines 281-282: the exception play ends with after a legal move
game_over_check(B) ==
    IF line_cap_move(B, B.current_player) = {} THEN "GameOverException"
    ELSE "none"

\* play, lines 256-258: the explicit pass play(-1, -1)
play_pass(B) ==
    [B EXCEPT !.history = Append(@, <<B.black, B.white, -1, -1,
                                      B.current_player>>)]

\* play, lines 260-263: what the legality test of (x, y) ends with;
\* move_mask.set raises IndexError before the test when the bit index is illegal
move_check(B, x_coord, y_coord) ==
    LET bit_idx == coords_to_bit_idx(x_coord, y_coord, B.size)
    IN IF ~check_bit_idx_is_legal(bit_idx, B.size) THEN "IndexError"
       ELSE IF line_cap_move(B, B.current_player) \cap {bit_idx} # {} THEN "none"
       ELSE "IllegalMoveException"

\* play without the test of lines 281-282: GameOverException is never raised
play_never_over(B, x_coord, y_coord) ==
    IF x_coord = -1 /\ y_coord = -1
    THEN [board |-> play_pass(B), exc |-> "none"]
    ELSE LET chk == move_check(B, x_coord, y_coord)
         IN IF chk # "none"
         THEN [board |-> B, exc |-> chk]
         ELSE [board |-> auto_pass(apply_move(B, x_coord, y_coord)),
               exc |-> "none"]

\* OthelloBoard.play: the board it leaves and the exception it raises
play(B, x_coord, y_coord) ==
    IF x_coord = -1 /\ y_coord = -1
    THEN [board |-> play_pass(B), exc |-> "none"]
    ELSE LET chk == move_check(B, x_coord, y_coord)
         IN IF chk # "none"
         THEN [board |-> B, exc |-> chk]
         ELSE LET after == auto_pass(apply_move(B, x_coord, y_coord))
              IN [board |-> after, exc |-> game_over_check(after)]

\* pop restoring the bitboards and leaving the player to move as it is
pop_keeping_player(B) ==
    IF Len(B.history) <= 0
    THEN [board |-> B, exc |-> "CannotPopException"]
    ELSE LET popped == B.history[Len(B.history)]
         IN [board |-> [B EXCEPT !.history = SubSeq(@, 1, Len(@) - 1),
                                 !.black = popped[1],
                                 !.white = popped[2]],
             exc |-> "none"]

\* OthelloBoard.pop: the board it leaves and the exception it raises
pop(B) ==
    IF Len(B.history) <= 0
    THEN [board |-> B, exc |-> "CannotPopException"]
    ELSE LET popped == B.history[Len(B.history)]
         IN [board |-> [B EXCEPT !.history = SubSeq(@, 1, Len(@) - 1),
                                 !.black = popped[1],
                                 !.white = popped[2],
                                 !.current_player = popped[5]],
             exc |-> "none"]

\* OthelloBoard.get_turn_id
get_turn_id(B) == Len(B.history) \div 2 + 1

\* is_game_over looking at the moves only, whatever the flag
is_game_over_unforced(B) ==
    LET m1 == line_cap_move(B, B.current_player)
        m2 == line_cap_move(B, Invert(B.current_player))
    IN popcount(m1) = popcount(m2) /\ popcount(m2) = 0

\* OthelloBoard.is_game_over
is_game_over(B) ==
    LET m1 == line_cap_move(B, B.current_player)
        m2 == line_cap_move(B, Invert(B.current_player))
    IN B.forced_game_over \/ (popcount(m1) = popcount(m2) /\ popcount(m2) = 0)

(***************************************************************************)
(* The save format.  A save text is kept as its lines:                     *)
(*   player   the line after "# board", the color to move                  *)
(*   rows     the lines of the grid, each a sequence of cells              *)
(*   history  the lines after "# history", each the sequence of the        *)
(*            segments "<turn>. X <move>" and " O <move>" written on it    *)
(* A move string is the pair of its column text and its row number:        *)
(* "c2" is [col |-> "c", row |-> 2] and "-1-1" is [col |-> "-1", row |-> -1]. *)
(***************************************************************************)
Letters == <<"a", "b", "c", "d", "e", "f", "g", "h", "i", "j", "k", "l", "m">>

\* ord(c) - ord('a'); chr(ord('a') + x) is Letters[x + 1]
ord_a(c) == (CHOOSE i \in DOMAIN Letters : Letters[i] = c) - 1

PassStr == [col |-> "-1", row |-> -1]
NoStr == [col |-> "", row |-> 0]

\* OthelloBoard.move_to_str
move_to_str(move) ==
    IF move[3] = -1 /\ move[4] = -1 THEN PassStr
    ELSE [col |-> Letters[move[3] + 1], row |-> move[4] + 1]

\* OthelloBoard.export_board: the color to move and the rows of the grid
export_board(B) ==
    [player |-> B.current_player,
     rows |-> [coord_y \in 1 .. B.size |->
                  [coord_x \in 1 .. B.size |->
                      IF Bitboard_get([size |-> B.size, bits |-> B.black],
                                      coord_x - 1, coord_y - 1).val
                      THEN BLACK
                      ELSE IF Bitboard_get([size |-> B.size, bits |-> B.white],
                                           coord_x - 1, coord_y - 1).val
                           THEN WHITE
                           ELSE EMPTY]]]

\* the segments export_history writes for the entry at move_index (from 0)
export_segments(move, move_index) ==
    IF move[5] = BLACK
    THEN <<[mark |-> "X", turn |-> move_index \div 2 + 1,
            move |-> move_to_str(move)]>>
    ELSE (IF move_index % 2 = 0
          THEN <<[mark |-> "X", turn |-> move_index \div 2 + 1,
                  move |-> PassStr]>>
          ELSE <<>>)
         \o <<[mark |-> "O", turn |-> 0, move |-> move_to_str(move)]>>

\* OthelloBoard.export_history: the loop over the history from move_index;
\* `lines` are the lines ended so far, `line` the one being written, which
\* a WHITE entry ends with "\n"
RECURSIVE export_history_loop(_, _, _, _)
export_history_loop(hist, move_index, lines, line) ==
    IF move_index >= Len(hist)
    THEN IF line = <<>> THEN lines ELSE Append(lines, line)
    ELSE IF hist[move_index + 1][5] = BLACK
         THEN export_history_loop(hist, move_index + 1, lines,
                  line \o export_segments(hist[move_index + 1], move_index))
         ELSE export_history_loop(hist, move_index + 1,
                  Append(lines, line \o export_segments(hist[move_index + 1],
                                                        move_index)),
                  <<>>)

export_history(B) == export_history_loop(B.history, 0, <<>>, <<>>)

\* OthelloBoard.export
export(B) ==
    [player |-> export_board(B).player, rows |-> export_board(B).rows,
     history |-> export_history(B)]

\* BoardParser.__find_board_size: the cells of the first row of the grid
find_board_size(text) == IF text.rows = <<>> THEN 0 ELSE Len(text.rows[1])

\* the lines __parse_board reads as rows of the grid: the line after the
\* color, then, __skip_newlines passing the empty ones, the lines that
\* follow.  "# board" and "# history" are empty lines to the parser, so the
\* rows the grid does not use are left to __parse_history
read_rows(text) ==
    IF text.rows = <<>> THEN <<>>
    ELSE <<text.rows[1]>>
         \o SelectSeq(Tail(text.rows), LAMBDA row : row # <<>>)

\* BoardParser.__line_mask on the row board_y (from 0): the masks of the row
\* and the exception raised.  The cells are read in order: one that is no
\* case value (the values of Color: X, O, the empty cell and the mark "·" of
\* a possible move, which counts as a cell and sets no bit) raises
\* BoardParserException, a disc whose bit index is illegal
\* raises the IndexError of Bitboard.set; the length of the row is compared
\* with board_size after its last cell
line_mask(row, board_y, board_size) ==
    LET case_values == {BLACK, WHITE, EMPTY, "·"}
        stops == {c \in 1 .. Len(row) :
                     \/ row[c] \notin case_values
                     \/ /\ row[c] \in {BLACK, WHITE}
                        /\ ~check_bit_idx_is_legal(
                               coords_to_bit_idx(c - 1, board_y, board_size),
                               board_size)}
        first == CHOOSE c \in stops : \A d \in stops : c <= d
    IN [black |-> {coords_to_bit_idx(c - 1, board_y, board_size) :
                      c \in {d \in 1 .. Len(row) : row[d] = BLACK}},
        white |-> {coords_to_bit_idx(c - 1, board_y, board_size) :
                      c \in {d \in 1 .. Len(row) : row[d] = WHITE}},
        exc |-> IF stops # {}
                THEN IF row[first] \in {BLACK, WHITE}
                     THEN "IndexError"
                     ELSE "BoardParserException"
                ELSE IF Len(row) # board_size
                     THEN "BoardParserException"
                     ELSE "none"]

\* __parse_board, lines 62-74: the masks of the board_size rows read, or-ed
line_masks(text, color) ==
    UNION {IF color = BLACK
           THEN line_mask(read_rows(text)[board_y + 1], board_y,
                          find_board_size(text)).black
           ELSE line_mask(read_rows(text)[board_y + 1], board_y,
                          find_board_size(text)).white :
              board_y \in 0 .. find_board_size(text) - 1}

\* BoardParser.__parse_board: the board
\* OthelloBoard(size, black_mask, white_mask, current_player=color), or the
\* exception of the first row that raises one; a row missing is the end of
\* the file or a line of the history read as a row, which raises
\* BoardParserException
parse_board(text) ==
    LET board_size == find_board_size(text)
        row_exc(board_y) ==
            IF board_y + 1 > Len(read_rows(text))
            THEN "BoardParserException"
            ELSE line_mask(read_rows(text)[board_y + 1], board_y,
                           board_size).exc
        raising == {board_y \in 0 .. board_size - 1 :
                       row_exc(board_y) # "none"}
    IN IF text.player \notin {BLACK, WHITE} \/ board_size \notin BoardSize
       THEN [board |-> NewBoard(6), exc |-> "BoardParserException"]
       ELSE IF raising # {}
            THEN [board |-> NewBoard(6),
                  exc |-> row_exc(CHOOSE board_y \in raising :
                                     \A other \in raising : board_y <= other)]
            ELSE [board |-> [size |-> board_size,
                             black |-> line_masks(text, BLACK),
                             white |-> line_masks(text, WHITE),
                             current_player |-> text.player,
                             history |-> <<>>,
                             forced_game_over |-> FALSE],
                  exc |-> "none"]

\* the digits of the class [1-<n+1>] of play_regex: from 1 to n+1 while n+1
\* has one digit, else 1 and the last digit of n+1
row_class(n) == IF n + 1 <= 9 THEN 1 .. n + 1 ELSE {1, (n + 1) % 10}

\* the first digit of a row number
first_digit(row) == IF row >= 10 THEN row \div 10 ELSE row

\* play_regex, ([a-<chr(a+n)>][1-<n+1>])|(-1-1), matched at the start of a
\* move string: the text matched, NoStr when nothing matches
play_regex(move, n) ==
    IF move = PassStr THEN PassStr
    ELSE IF /\ \E i \in DOMAIN Letters : Letters[i] = move.col
            /\ ord_a(move.col) <= n
            /\ move.row >= 1
            /\ first_digit(move.row) \in row_class(n)
         THEN [col |-> move.col, row |-> first_digit(move.row)]
         ELSE NoStr

\* line_regex.match(line): group 1 (the turn), group 2 (the play after X)
\* and group 6 (the play after O, NoStr when the group is absent); the match
\* is anchored at the start of the line only
line_regex(line, n) ==
    IF line = <<>> \/ line[1].mark # "X" \/ play_regex(line[1].move, n) = NoStr
    THEN [matches |-> FALSE, turn_id |-> 0, black_play |-> NoStr,
          white_play |-> NoStr]
    ELSE [matches |-> TRUE,
          turn_id |-> line[1].turn,
          black_play |-> play_regex(line[1].move, n),
          white_play |->
              IF /\ play_regex(line[1].move, n) = line[1].move
                 /\ Len(line) >= 2
                 /\ line[2].mark = "O"
              THEN play_regex(line[2].move, n)
              ELSE NoStr]

\* BoardParser.__parse_move
parse_move(move) ==
    IF move = PassStr THEN <<-1, -1>>
    ELSE <<ord_a(move.col), move.row - 1>>

\* __parse_history_turn, lines 110-124: only IllegalMoveException is turned
\* into a BoardParserException, any other exception of play leaves the parser
parse_played(played) ==
    IF played.exc = "IllegalMoveException"
    THEN [board |-> played.board, exc |-> "BoardParserException"]
    ELSE played

\* __parse_history_turn, lines 117-124: the play after O, if there is one
parse_white_play(after_black, white_play) ==
    IF after_black.exc # "none" \/ white_play = NoStr THEN after_black
    ELSE parse_played(play(after_black.board, parse_move(white_play)[1],
                           parse_move(white_play)[2]))

\* __parse_history_turn, lines 101-124, `matches` being what the regex gave
parse_history_matched(B, matches) ==
    IF ~matches.matches
    THEN [board |-> B, exc |-> "BoardParserException"]
    ELSE IF matches.turn_id # get_turn_id(B)
         THEN [board |-> B, exc |-> "BoardParserException"]
         ELSE parse_white_play(
                  parse_played(play(B, parse_move(matches.black_play)[1],
                                    parse_move(matches.black_play)[2])),
                  matches.white_play)

\* BoardParser.__parse_history_turn
parse_history_turn(B, line) ==
    parse_history_matched(B, line_regex(line, B.size))

\* BoardParser.__parse_history, lines 89-92: the lines are replayed in order
\* until one raises
RECURSIVE parse_history_loop(_, _)
parse_history_loop(turn, lines) ==
    IF turn.exc # "none" \/ lines = <<>> THEN turn
    ELSE parse_history_loop(parse_history_turn(turn.board, lines[1]),
                            Tail(lines))

\* BoardParser.__parse_history on the board of the grid: the lines are
\* replayed on a new board of the same size, the empty ones skipped.  A row
\* of the grid left by __parse_board is read first, as a line of the
\* history, and does not match line_regex
parse_history(B, text) ==
    IF Len(read_rows(text)) > find_board_size(text)
    THEN [board |-> NewBoard(B.size), exc |-> "BoardParserException"]
    ELSE parse_history_loop([board |-> NewBoard(B.size), exc |-> "none"],
                            SelectSeq(text.history,
                                      LAMBDA line : line # <<>>))

\* BoardParser.parse: the board it returns and the exception it raises.  With
\* no line left after the grid __parse_history returns None and the board of
\* the grid is returned; otherwise the replayed board is, and the board of
\* the grid is dropped
parse(text) ==
    LET board == parse_board(text)
    IN IF board.exc # "none" THEN board
       ELSE IF /\ Len(read_rows(text)) <= find_board_size(text)
               /\ \A i \in DOMAIN text.history : text.history[i] = <<>>
            THEN board
            ELSE parse_history(board.board, text)

\* restart putting the starting discs back and leaving the history as it is
restart_keeping_history(B) ==
    [B EXCEPT !.black = init_black(B.size), !.white = init_white(B.size),
              !.current_player = BLACK]

\* OthelloBoard.restart: the history is emptied, the bitboards are replaced
\* by new ones holding the four starting discs and BLACK is to move; the
\* flag set by force_game_over is not touched
restart(B) ==
    [B EXCEPT !.history = <<>>,
              !.black = init_black(B.size), !.white = init_white(B.size),
              !.current_player = BLACK]

\* OthelloBoard.force_game_over
force_game_over(B) == [B EXCEPT !.forced_game_over = TRUE]

(***************************************************************************)
(* The AI (othello/ai_features.py).  A heuristic is named by the function  *)
(* that computes it.  A search returns the record                          *)
(*   [board, exc, val]:                                                    *)
(* the shared board as the call leaves it, the exception that escapes it   *)
(* ("none" when it returns) and the score it returns (0 when it raises).   *)
(***************************************************************************)
\* float("-inf") and float("inf"): below and above every score of a heuristic
NegInf == -1000000
PosInf == 1000000

Max(a, b) == IF a >= b THEN a ELSE b
Min(a, b) == IF a <= b THEN a ELSE b

\* int(100 * num / den) with the quotient rounded down instead
int_percent_floor(num, den) == (100 * num) \div den

\* int(100 * num / den) for den > 0: the quotient is truncated toward zero
int_percent(num, den) ==
    IF num >= 0 THEN (100 * num) \div den ELSE 0 - ((100 * (0 - num)) \div den)

\* Bitboard.hot_bits_coordinates, the (x, y) of the set bits; bitboard.py
\* does not define it, the bits are taken in increasing index order
RECURSIVE hot_bits_from(_, _, _)
hot_bits_from(bits, i, n) ==
    IF i >= n * n THEN <<>>
    ELSE (IF i \in bits THEN <<<<i % n, i \div n>>>> ELSE <<>>)
         \o hot_bits_from(bits, i + 1, n)

hot_bits_coordinates(bits, n) == hot_bits_from(bits, 0, n)

\* get_player_at, for a cell of the board
get_player_at(B, x, y) ==
    IF coords_to_bit_idx(x, y, B.size) \in B.black THEN BLACK
    ELSE IF coords_to_bit_idx(x, y, B.size) \in B.white THEN WHITE
    ELSE "_"

\* corners_captured_heuristic
corners_captured_heuristic(B, max_player) ==
    LET corners == {<<0, 0>>, <<B.size - 1, 0>>,
                    <<0, B.size - 1>>, <<B.size - 1, B.size - 1>>}
        max_corners == Cardinality({c \in corners :
                           get_player_at(B, c[1], c[2]) = max_player})
        min_corners == Cardinality({c \in corners :
                           get_player_at(B, c[1], c[2]) = Invert(max_player)})
    IN IF max_corners + min_corners # 0
       THEN int_percent(max_corners - min_corners, max_corners + min_corners)
       ELSE 0

\* coin_parity_heuristic without the division by the number of discs
coin_parity_heuristic_unscaled(B, max_player) ==
    IF max_player = BLACK
    THEN 100 * (popcount(B.black) - popcount(B.white))
    ELSE 100 * (popcount(B.white) - popcount(B.black))

\* coin_parity_heuristic, on a board that holds discs (the division fails
\* on an empty grid)
coin_parity_heuristic(B, max_player) ==
    LET black_count == popcount(B.black)
        white_count == popcount(B.white)
    IN IF max_player = BLACK
       THEN int_percent(black_count - white_count, black_count + white_count)
       ELSE int_percent(white_count - black_count, white_count + black_count)

\* what mobility_heuristic hands to line_cap_move: the Bitboard board.black
\* or board.white, which `current_player is Color.BLACK` never holds of
BitboardArgument == "Bitboard"

\* mobility_heuristic
mobility_heuristic(B, max_player) ==
    LET black_move_count == popcount(line_cap_move(B, BitboardArgument))
        white_move_count == popcount(line_cap_move(B, BitboardArgument))
    IN IF black_move_count + white_move_count # 0
       THEN IF max_player = BLACK
            THEN int_percent(black_move_count - white_move_count,
                             black_move_count + white_move_count)
            ELSE int_percent(white_move_count - black_move_count,
                             white_move_count + black_move_count)
       ELSE 0

\* all_in_one_heuristic
all_in_one_heuristic(B, max_player) ==
    10 * corners_captured_heuristic(B, max_player)
    + 4 * mobility_heuristic(B, max_player)
    + 1 * coin_parity_heuristic(B, max_player)

\* the heuristic functions
Heuristics == {"corners_captured_heuristic", "coin_parity_heuristic",
               "mobility_heuristic", "all_in_one_heuristic"}

\* the call heuristic(board, max_player)
heuristic_call(heuristic, B, max_player) ==
    CASE heuristic = "corners_captured_heuristic" ->
             corners_captured_heuristic(B, max_player)
      [] heuristic = "coin_parity_heuristic" ->
             coin_parity_heuristic(B, max_player)
      [] heuristic = "mobility_heuristic" ->
             mobility_heuristic(B, max_player)
      [] heuristic = "all_in_one_heuristic" ->
             all_in_one_heuristic(B, max_player)

RECURSIVE minimax(_, _, _, _)
RECURSIVE minimax_loop(_, _, _, _, _, _, _, _)

\* the end of the loop body: the board.pop() that follows the recursive
\* call, then the next move
minimax_popped(popped, valid_moves, i, eval, maximizing, depth, max_player, heuristic) ==
    IF popped.exc # "none"
    THEN [board |-> popped.board, exc |-> popped.exc, val |-> 0]
    ELSE minimax_loop(popped.board, valid_moves, i + 1, eval, maximizing,
                      depth, max_player, heuristic)

\* the middle of the loop body: eval = max(eval, eval_score) or
\* min(eval, eval_score) with the score of the recursive call
minimax_scored(child, valid_moves, i, eval, maximizing, depth, max_player, heuristic) ==
    IF child.exc # "none" THEN child
    ELSE minimax_popped(pop(child.board), valid_moves, i,
                        IF maximizing THEN Max(eval, child.val)
                        ELSE Min(eval, child.val),
                        maximizing, depth, max_player, heuristic)

\* the loop body after board.play(move_x, move_y): the recursive call on
\* the board as play has left it
minimax_played(played, valid_moves, i, eval, maximizing, depth, max_player, heuristic) ==
    IF played.exc # "none"
    THEN [board |-> played.board, exc |-> played.exc, val |-> 0]
    ELSE minimax_scored(minimax(played.board, depth - 1, max_player, heuristic),
                        valid_moves, i, eval, maximizing, depth, max_player,
                        heuristic)

\* the for loop of minimax from its i-th move on: play, recurse, fold the
\* score into eval, pop; an exception of play, of the recursive call or of
\* pop leaves the loop with the board as it is at that point
minimax_loop(B, valid_moves, i, eval, maximizing, depth, max_player, heuristic) ==
    IF i > Len(valid_moves)
    THEN [board |-> B, exc |-> "none", val |-> eval]
    ELSE minimax_played(play(B, valid_moves[i][1], valid_moves[i][2]),
                        valid_moves, i, eval, maximizing, depth, max_player,
                        heuristic)

\* minimax recording the forced pass with play(-1, -1) before it recurses
minimax_recording_pass(B, depth, max_player, heuristic) ==
    IF depth = 0 \/ is_game_over(B)
    THEN [board |-> B, exc |-> "none",
          val |-> heuristic_call(heuristic, B, max_player)]
    ELSE LET valid_moves == hot_bits_coordinates(
                                line_cap_move(B, B.current_player), B.size)
         IN IF valid_moves = <<>>
            THEN minimax(play(B, -1, -1).board, depth - 1, max_player, heuristic)
            ELSE IF max_player = B.current_player
                 THEN minimax_loop(B, valid_moves, 1, NegInf, TRUE,
                                   depth, max_player, heuristic)
                 ELSE minimax_loop(B, valid_moves, 1, PosInf, FALSE,
                                   depth, max_player, heuristic)

\* minimax
minimax(B, depth, max_player, heuristic) ==
    IF depth = 0 \/ is_game_over(B)
    THEN [board |-> B, exc |-> "none",
          val |-> heuristic_call(heuristic, B, max_player)]
    ELSE LET valid_moves == hot_bits_coordinates(
                                line_cap_move(B, B.current_player), B.size)
         IN IF valid_moves = <<>>
            THEN minimax(B, depth - 1, max_player, heuristic)
            ELSE IF max_player = B.current_player
                 THEN minimax_loop(B, valid_moves, 1, NegInf, TRUE,
                                   depth, max_player, heuristic)
                 ELSE minimax_loop(B, valid_moves, 1, PosInf, FALSE,
                                   depth, max_player, heuristic)

RECURSIVE alphabeta(_, _, _, _, _, _)
RECURSIVE alphabeta_loop(_, _, _, _, _, _, _, _, _, _)

\* the end of the loop body: after board.pop() the window is narrowed with
\* the new eval, and the loop is left when beta <= alpha
alphabeta_popped(popped, valid_moves, i, eval, maximizing, depth, alpha, beta, max_player, heuristic) ==
    IF popped.exc # "none"
    THEN [board |-> popped.board, exc |-> popped.exc, val |-> 0]
    ELSE IF beta <= alpha
         THEN [board |-> popped.board, exc |-> "none", val |-> eval]
         ELSE alphabeta_loop(popped.board, valid_moves, i + 1, eval,
                             maximizing, depth, alpha, beta, max_player,
                             heuristic)

\* the new window: alpha = max(alpha, eval) at a maximizing node,
\* beta = min(beta, eval) at a minimizing one
alphabeta_narrowed(popped, valid_moves, i, eval, maximizing, depth, alpha, beta, max_player, heuristic) ==
    alphabeta_popped(popped, valid_moves, i, eval, maximizing, depth,
                     IF maximizing THEN Max(alpha, eval) ELSE alpha,
                     IF maximizing THEN beta ELSE Min(beta, eval),
                     max_player, heuristic)

\* the middle of the loop body: eval = max(eval, eval_score) or
\* min(eval, eval_score) with the score of the recursive call, then pop
alphabeta_scored(child, valid_moves, i, eval, maximizing, depth, alpha, beta, max_player, heuristic) ==
    IF child.exc # "none" THEN child
    ELSE alphabeta_narrowed(pop(child.board), valid_moves, i,
                            IF maximizing THEN Max(eval, child.val)
                            ELSE Min(eval, child.val),
                            maximizing, depth, alpha, beta, max_player,
                            heuristic)

\* the loop body after board.play(move_x, move_y): the recursive call, with
\* the current window, on the board as play has left it
alphabeta_played(played, valid_moves, i, eval, maximizing, depth, alpha, beta, max_player, heuristic) ==
    IF played.exc # "none"
    THEN [board |-> played.board, exc |-> played.exc, val |-> 0]
    ELSE alphabeta_scored(alphabeta(played.board, depth - 1, alpha, beta,
                                    max_player, heuristic),
                          valid_moves, i, eval, maximizing, depth, alpha,
                          beta, max_player, heuristic)

\* the for loop of alphabeta from its i-th move on; after the pop the
\* window is narrowed and the loop is left when beta <= alpha
alphabeta_loop(B, valid_moves, i, eval, maximizing, depth, alpha, beta, max_player, heuristic) ==
    IF i > Len(valid_moves)
    THEN [board |-> B, exc |-> "none", val |-> eval]
    ELSE alphabeta_played(play(B, valid_moves[i][1], valid_moves[i][2]),
                          valid_moves, i, eval, maximizing, depth, alpha,
                          beta, max_player, heuristic)

\* alphabeta
alphabeta(B, depth, alpha, beta, max_player, heuristic) ==
    IF depth = 0 \/ is_game_over(B)
    THEN [board |-> B, exc |-> "none",
          val |-> heuristic_call(heuristic, B, max_player)]
    ELSE LET valid_moves == hot_bits_coordinates(
                                line_cap_move(B, B.current_player), B.size)
         IN IF valid_moves = <<>>
            THEN alphabeta(B, depth - 1, alpha, beta, max_player, heuristic)
            ELSE IF max_player = B.current_player
                 THEN alphabeta_loop(B, valid_moves, 1, NegInf, TRUE, depth,
                                     alpha, beta, max_player, heuristic)
                 ELSE alphabeta_loop(B, valid_moves, 1, PosInf, FALSE, depth,
                                     alpha, beta, max_player, heuristic)

\* the names find_best_move knows a heuristic by, and one it does not know
HeuristicNames == {"coin_parity", "corners_captured", "mobility", "all_in_one"}

\* find_best_move, lines 258-265: the function a heuristic name selects
heuristic_function(name) ==
    IF name = "coin_parity" THEN "coin_parity_heuristic"
    ELSE IF name = "corners_captured" THEN "corners_captured_heuristic"
    ELSE IF name = "mobility" THEN "mobility_heuristic"
    ELSE "all_in_one_heuristic"

\* the search algorithms find_best_move is called with
SearchAlgos == {"minimax", "alphabeta"}

\* find_best_move, lines 277-284: the search run on the copy of the board
search_call(B, depth, max_player, search_algo, heuristic) ==
    IF search_algo = "minimax"
    THEN minimax(B, depth, max_player, heuristic)
    ELSE alphabeta(B, depth, NegInf, PosInf, max_player, heuristic)

\* the for loop of find_best_move from its i-th move on; every move is
\* played on a deepcopy of the board, which the loop leaves untouched
RECURSIVE find_best_move_loop(_, _, _, _, _, _, _, _, _)

\* the end of the loop body: the move is kept if score > best_score
find_best_move_scored(found, B, valid_moves, i, best_score, best_move, depth, max_player, search_algo, heuristic) ==
    IF found.exc # "none"
    THEN [exc |-> found.exc, move |-> <<-1, -1>>]
    ELSE IF found.val > best_score
         THEN find_best_move_loop(B, valid_moves, i + 1, found.val,
                                  valid_moves[i], depth, max_player,
                                  search_algo, heuristic)
         ELSE find_best_move_loop(B, valid_moves, i + 1, best_score,
                                  best_move, depth, max_player, search_algo,
                                  heuristic)

\* the loop body after new_board.play(move_x, move_y): the search at
\* depth - 1 on the copy
find_best_move_played(played, B, valid_moves, i, best_score, best_move, depth, max_player, search_algo, heuristic) ==
    IF played.exc # "none"
    THEN [exc |-> played.exc, move |-> <<-1, -1>>]
    ELSE find_best_move_scored(
             search_call(played.board, depth - 1, max_player, search_algo,
                         heuristic),
             B, valid_moves, i, best_score, best_move, depth, max_player,
             search_algo, heuristic)

find_best_move_loop(B, valid_moves, i, best_score, best_move, depth, max_player, search_algo, heuristic) ==
    IF i > Len(valid_moves)
    THEN [exc |-> "none", move |-> best_move]
    ELSE find_best_move_played(
             play(B, valid_moves[i][1], valid_moves[i][2]),
             B, valid_moves, i, best_score, best_move, depth, max_player,
             search_algo, heuristic)

\* find_best_move: the exception that escapes it ("none" when it returns)
\* and the move it returns (<<-1, -1>> when it raises)
find_best_move(B, depth, max_player, search_algo, heuristic) ==
    IF depth = 0 \/ is_game_over(B)
    THEN [exc |-> "none", move |-> <<-1, -1>>]
    ELSE find_best_move_loop(
             B,
             hot_bits_coordinates(line_cap_move(B, B.current_player), B.size),
             1,
             IF max_player = B.current_player THEN NegInf ELSE PosInf,
             <<-1, -1>>, depth, max_player, search_algo,
             heuristic_function(heuristic))

(***************************************************************************)
(* Recorded games.  BoardParser.__parse_history replays the moves of a     *)
(* save file on a fresh board with play; the openings below are such       *)
(* recorded move lists, given for the 6x6 board and translated to the      *)
(* centre of the larger ones.                                              *)
(***************************************************************************)
\* eight legal moves after which BLACK's (1,3) captures the last white disc
WipeoutOpening == <<<<3, 4>>, <<4, 2>>, <<3, 1>>, <<4, 4>>,
                    <<5, 3>>, <<2, 4>>, <<3, 5>>, <<4, 3>>>>

\* seven legal moves after which WHITE's (0,2) leaves BLACK without a move
PassOpening == <<<<2, 1>>, <<1, 1>>, <<0, 1>>, <<0, 0>>,
                 <<4, 3>>, <<2, 4>>, <<2, 5>>>>

Translate(moves, n) ==
    [i \in DOMAIN moves |-> <<moves[i][1] + (n \div 2 - 3),
                              moves[i][2] + (n \div 2 - 3)>>]

Openings(n) ==
    {<<>>, Translate(WipeoutOpening, n)}
    \cup (IF n = 6 THEN {PassOpening} ELSE {})

\* BoardParser.__parse_history: the moves are played in order on a fresh
\* board (the openings hold legal moves only, no call raises)
RECURSIVE Replay(_, _)
Replay(B, moves) ==
    IF moves = <<>> THEN B
    ELSE Replay(play(B, moves[1][1], moves[1][2]).board, Tail(moves))

(***************************************************************************)
(* The state machine: a driver holding one board calls play and pop.       *)
(* `last` is the last call and the exception it raised, `base` the size    *)
(* of what the behaviour started with: the length of the recorded opening  *)
(* here, the number of discs of the starting grid in the second            *)
(* specification.                                                          *)
(***************************************************************************)
\* the driver holds no stand-alone Bitboard and no save text
NoBitboard == [size |-> 0, bits |-> {}]
NoSave == [player |-> "_", rows |-> <<>>, history |-> <<>>]
\* the driver holds no NormalGame and no BlitzTimer
NoGame == [current_player |-> "_", no_black_move |-> FALSE,
           no_white_move |-> FALSE, pc |-> "none"]
NoTimer == [start_time |-> 0, remaining_time |-> [black |-> 0, white |-> 0],
            current_player |-> "none"]

Board == [size |-> size, black |-> black, white |-> white,
          current_player |-> current_player, history |-> history,
          forced_game_over |-> forced_game_over]

\* the board sizes explored
Sizes == {n \in BoardSize : n <= MaxSize}

\* the coordinates handed to play
Coord(n) == (0 - CoordSlack) .. (n - 1 + CoordSlack)

SetBoard(B) ==
    /\ size' = B.size
    /\ black' = B.black
    /\ white' = B.white
    /\ current_player' = B.current_player
    /\ history' = B.history
    /\ forced_game_over' = B.forced_game_over

Init ==
    \E n \in Sizes : \E moves \in Openings(n) :
        LET B == Replay(NewBoard(n), moves)
        IN /\ size = B.size
           /\ black = B.black
           /\ white = B.white
           /\ current_player = B.current_player
           /\ history = B.history
           /\ forced_game_over = B.forced_game_over
           /\ last = [op |-> "init", exc |-> "none"]
           /\ base = Len(B.history)
           /\ searches = 0
           /\ bitboard = NoBitboard
           /\ save = NoSave
           /\ game = NoGame
           /\ timer = NoTimer
           /\ now = 0
           /\ granted = 0

\* board.play(x, y)
Play(x, y) ==
    /\ Len(history) - base < MaxPlies
    /\ LET r == play(Board, x, y)
       IN /\ SetBoard(r.board)
          /\ last' = [op |-> "play", exc |-> r.exc]
    /\ UNCHANGED <<base, searches, bitboard, save,
                   game, timer, now, granted>>

\* board.pop(), undoing the moves played on top of the opening
Pop ==
    /\ Len(history) > base \/ Len(history) = 0
    /\ LET r == pop(Board)
       IN /\ SetBoard(r.board)
          /\ last' = [op |-> "pop", exc |-> r.exc]
    /\ UNCHANGED <<base, searches, bitboard, save,
                   game, timer, now, granted>>

Next ==
    \/ \E x \in Coord(size), y \in Coord(size) : Play(x, y)
    \/ Pop

Spec == Init /\ [][Next]_vars

(***************************************************************************)
(* Second specification: positions handed to                               *)
(* OthelloBoard(size, black, white, current_player), built cell by cell    *)
(* with Bitboard.set on an empty grid or on the grid of a recorded game.   *)
(***************************************************************************)
\* Bitboard.set(x, y, True) for a legal bit index
bitboard_set(bits, x, y, n) == bits \cup {coords_to_bit_idx(x, y, n)}

StartGrids(n) ==
    {[black |-> {}, white |-> {}]}
    \cup {[black |-> Replay(NewBoard(n), moves).black,
           white |-> Replay(NewBoard(n), moves).white] : moves \in Openings(n)}

InitPos ==
    /\ size = 6
    /\ \E g \in StartGrids(6) :
           black = g.black /\ white = g.white
           /\ base = popcount(g.black \cup g.white)
    /\ current_player = BLACK
    /\ history = <<>>
    /\ forced_game_over = FALSE
    /\ searches = 0
    /\ bitboard = NoBitboard
    /\ save = NoSave
    /\ game = NoGame
    /\ timer = NoTimer
    /\ now = 0
    /\ granted = 0
    /\ last = [op |-> "init", exc |-> "none"]

\* black.set(x, y, True) or white.set(x, y, True) on an empty cell
SetDisc(color, x, y) ==
    /\ popcount(black \cup white) - base < MaxDiscs
    /\ coords_to_bit_idx(x, y, size) \notin black \cup white
    /\ black' = IF color = BLACK THEN bitboard_set(black, x, y, size) ELSE black
    /\ white' = IF color = WHITE THEN bitboard_set(white, x, y, size) ELSE white
    /\ last' = [op |-> "set", exc |-> "none"]
    /\ UNCHANGED <<size, current_player, history, forced_game_over, base,
                   searches, bitboard, save,
                   game, timer, now, granted>>

NextPos ==
    \E color \in {BLACK, WHITE}, x \in 0 .. size - 1, y \in 0 .. size - 1 :
        SetDisc(color, x, y)

SpecPos == InitPos /\ [][NextPos]_vars

(***************************************************************************)
(* Third specification: a game.  From a recorded opening the driver plays  *)
(* moves of line_cap_move(current_player) and may force the end of the     *)
(* game, after which it plays no more.                                     *)
(***************************************************************************)
\* board.play(x, y) with a move of line_cap_move(current_player), while
\* fewer than max_plies entries have been added to the history
PlayMove(x, y, max_plies) ==
    /\ ~forced_game_over
    /\ Len(history) - base < max_plies
    /\ <<x, y>> \in {<<c % size, c \div size>> :
                        c \in line_cap_move(Board, current_player)}
    /\ LET r == play(Board, x, y)
       IN /\ SetBoard(r.board)
          /\ last' = [op |-> "play", exc |-> r.exc]
    /\ UNCHANGED <<base, searches, bitboard, save,
                   game, timer, now, granted>>

\* board.force_game_over()
ForceGameOver ==
    /\ ~forced_game_over
    /\ SetBoard(force_game_over(Board))
    /\ last' = [op |-> "force_game_over", exc |-> "none"]
    /\ UNCHANGED <<base, searches, bitboard, save,
                   game, timer, now, granted>>

NextGame ==
    \/ \E x \in 0 .. size - 1, y \in 0 .. size - 1 : PlayMove(x, y, MaxPlies)
    \/ ForceGameOver

SpecGame == Init /\ [][NextGame]_vars

(***************************************************************************)
(* Fourth specification: an AI session on the 6x6 board.  The driver plays *)
(* legal moves, may force the end of the game, and calls the searches of   *)
(* ai_features.py on the board it holds: minimax and alphabeta work on     *)
(* that board in place and leave it as it is when they return or raise,    *)
(* find_best_move works on copies.  `last` also records the score or the   *)
(* move a search returned.                                                 *)
(***************************************************************************)
\* the recorded games an AI session resumes
AIOpenings == {<<>>, SubSeq(PassOpening, 1, 6), PassOpening, WipeoutOpening}

Depths == 0 .. MaxDepth

InitAI ==
    \E moves \in AIOpenings :
        LET B == Replay(NewBoard(6), moves)
        IN /\ size = B.size
           /\ black = B.black
           /\ white = B.white
           /\ current_player = B.current_player
           /\ history = B.history
           /\ forced_game_over = B.forced_game_over
           /\ last = [op |-> "init", exc |-> "none"]
           /\ base = Len(B.history)
           /\ searches = 0
           /\ bitboard = NoBitboard
           /\ save = NoSave
           /\ game = NoGame
           /\ timer = NoTimer
           /\ now = 0
           /\ granted = 0

\* minimax(board, depth, max_player, heuristic)
Minimax(depth, max_player, heuristic) ==
    /\ searches < MaxSearches
    /\ LET r == minimax(Board, depth, max_player, heuristic)
       IN /\ SetBoard(r.board)
          /\ last' = [op |-> "minimax", exc |-> r.exc, val |-> r.val]
    /\ searches' = searches + 1
    /\ UNCHANGED <<base, bitboard, save,
                   game, timer, now, granted>>

\* alphabeta(board, depth, float("-inf"), float("inf"), max_player, heuristic)
Alphabeta(depth, max_player, heuristic) ==
    /\ searches < MaxSearches
    /\ LET r == alphabeta(Board, depth, NegInf, PosInf, max_player, heuristic)
       IN /\ SetBoard(r.board)
          /\ last' = [op |-> "alphabeta", exc |-> r.exc, val |-> r.val]
    /\ searches' = searches + 1
    /\ UNCHANGED <<base, bitboard, save,
                   game, timer, now, granted>>

\* find_best_move(board, depth, max_player, search_algo, heuristic)
FindBestMove(depth, max_player, search_algo, heuristic) ==
    /\ searches < MaxSearches
    /\ LET r == find_best_move(Board, depth, max_player, search_algo, heuristic)
       IN last' = [op |-> "find_best_move", exc |-> r.exc, move |-> r.move]
    /\ searches' = searches + 1
    /\ UNCHANGED <<size, black, white, current_player, history,
                   forced_game_over, base, bitboard, save,
                   game, timer, now, granted>>

NextAI ==
    \/ \E x \in 0 .. size - 1, y \in 0 .. size - 1 : PlayMove(x, y, MaxAIPlies)
    \/ ForceGameOver
    \/ \E depth \in Depths, max_player \in {BLACK, WHITE},
          heuristic \in Heuristics : Minimax(depth, max_player, heuristic)
    \/ \E depth \in Depths, max_player \in {BLACK, WHITE},
          heuristic \in Heuristics : Alphabeta(depth, max_player, heuristic)
    \/ \E depth \in Depths, max_player \in {BLACK, WHITE},
          search_algo \in SearchAlgos, heuristic \in HeuristicNames :
              FindBestMove(depth, max_player, search_algo, heuristic)

SpecAI == InitAI /\ [][NextAI]_vars

(***************************************************************************)
(* Fifth specification: a stand-alone Bitboard.  The driver holds one      *)
(* Bitboard(size), empty at first, and calls set, get and shift on it;     *)
(* set and get are also called with coordinates outside the board.         *)
(* `last` records the exception raised and, for get, the value returned.   *)
(***************************************************************************)
\* the coordinates handed to set and get
BitCoord(n) == (0 - CoordSlack) .. (n - 1 + CoordSlack)

InitBits ==
    /\ \E n \in 1 .. MaxBitSize : bitboard = [size |-> n, bits |-> {}]
    /\ last = [op |-> "init", exc |-> "none"]
    /\ size = 6
    /\ black = init_black(6)
    /\ white = init_white(6)
    /\ current_player = BLACK
    /\ history = <<>>
    /\ forced_game_over = FALSE
    /\ base = 0
    /\ searches = 0
    /\ save = NoSave
    /\ game = NoGame
    /\ timer = NoTimer
    /\ now = 0
    /\ granted = 0

\* bitboard.set(x, y, value)
BitboardSet(x, y, value) ==
    /\ value => popcount(bitboard.bits) < MaxBits
    /\ LET r == Bitboard_set(bitboard, x, y, value)
       IN /\ bitboard' = [bitboard EXCEPT !.bits = r.bits]
          /\ last' = [op |-> "set", exc |-> r.exc]
    /\ UNCHANGED <<size, black, white, current_player, history,
                   forced_game_over, base, searches, save,
                   game, timer, now, granted>>

\* bitboard.get(x, y)
BitboardGet(x, y) ==
    /\ LET r == Bitboard_get(bitboard, x, y)
       IN last' = [op |-> "get", exc |-> r.exc, val |-> r.val]
    /\ UNCHANGED <<size, black, white, current_player, history,
                   forced_game_over, base, searches, save, bitboard,
                   game, timer, now, granted>>

\* bitboard = bitboard.shift(dir)
BitboardShift(dir) ==
    /\ bitboard' = [bitboard EXCEPT
                        !.bits = shift(bitboard.bits, dir, bitboard.size)]
    /\ last' = [op |-> "shift", exc |-> "none"]
    /\ UNCHANGED <<size, black, white, current_player, history,
                   forced_game_over, base, searches, save,
                   game, timer, now, granted>>

NextBits ==
    \/ \E x \in BitCoord(bitboard.size), y \in BitCoord(bitboard.size),
          value \in BOOLEAN : BitboardSet(x, y, value)
    \/ \E x \in BitCoord(bitboard.size), y \in BitCoord(bitboard.size) :
          BitboardGet(x, y)
    \/ \E i \in DOMAIN Direction : BitboardShift(Direction[i])

SpecBits == InitBits /\ [][NextBits]_vars

(***************************************************************************)
(* Sixth specification: a game that may be started again.  To the moves   *)
(* of the third specification it adds board.restart() and board.pop().     *)
(***************************************************************************)
\* board.restart()
Restart ==
    /\ SetBoard(restart(Board))
    /\ base' = 0
    /\ last' = [op |-> "restart", exc |-> "none"]
    /\ UNCHANGED <<searches, bitboard, save,
                   game, timer, now, granted>>

NextRestart ==
    \/ \E x \in 0 .. size - 1, y \in 0 .. size - 1 : PlayMove(x, y, MaxPlies)
    \/ ForceGameOver
    \/ Pop
    \/ Restart

SpecRestart == Init /\ [][NextRestart]_vars

(***************************************************************************)
(* Seventh specification: tiled boards.  As the game_over_board fixture of *)
(* tests/test_ai_features.py does, a board is made with OthelloBoard(size) *)
(* and its cells are set to one color except one corner, set to the other  *)
(* color; a few cells are not set at first and then set one by one when    *)
(* they are empty.  The fixture sets its cells on top of the four starting *)
(* discs: Bitboard.set(x, y, True) only adds bits, so every starting disc  *)
(* stays where __init_board put it, the two of the corner's color in both  *)
(* bitboards, and a cell not set that holds a starting disc is not empty.  *)
(* The grids made on cleared bitboards are explored as well.               *)
(***************************************************************************)
\* the corners of the grid
Corners(n) == {coords_to_bit_idx(0, 0, n), coords_to_bit_idx(n - 1, 0, n),
               coords_to_bit_idx(0, n - 1, n),
               coords_to_bit_idx(n - 1, n - 1, n)}

\* the sets of at most k cells not set
RECURSIVE HolesUpTo(_, _)
HolesUpTo(k, cells) ==
    IF k = 0 THEN {{}}
    ELSE LET fewer == HolesUpTo(k - 1, cells)
         IN fewer \cup {h \cup {c} : h \in fewer, c \in cells}

\* the discs of `color` on a grid tiled with `tile` except `corner`, with the
\* cells of `holes` not set; `start` is what the bitboard held before
TiledBits(n, color, tile, corner, holes, start) ==
    IF color = tile
    THEN (mask(n) \ ({corner} \cup holes)) \cup start
    ELSE {corner} \cup start

InitTiled ==
    /\ \E n \in Sizes, tile \in {BLACK, WHITE}, on_start \in BOOLEAN :
         \E corner \in Corners(n) :
         \E holes \in HolesUpTo(MaxHoles, mask(n) \ {corner}) :
           /\ size = n
           /\ black = TiledBits(n, BLACK, tile, corner, holes,
                                IF on_start THEN init_black(n) ELSE {})
           /\ white = TiledBits(n, WHITE, tile, corner, holes,
                                IF on_start THEN init_white(n) ELSE {})
           /\ base = popcount(black \cup white)
    /\ current_player = BLACK
    /\ history = <<>>
    /\ forced_game_over = FALSE
    /\ searches = 0
    /\ bitboard = NoBitboard
    /\ save = NoSave
    /\ game = NoGame
    /\ timer = NoTimer
    /\ now = 0
    /\ granted = 0
    /\ last = [op |-> "init", exc |-> "none"]

SpecTiled == InitTiled /\ [][NextPos]_vars

(***************************************************************************)
(* Eighth specification: evaluation.  From a recorded opening the driver   *)
(* plays legal moves and calls the heuristics of ai_features.py on the     *)
(* board it holds; `last` records the heuristic called and its score.      *)
(***************************************************************************)
\* heuristic(board, max_player)
Heuristic(heuristic, max_player) ==
    /\ last' = [op |-> heuristic, exc |-> "none",
                val |-> heuristic_call(heuristic, Board, max_player)]
    /\ UNCHANGED <<size, black, white, current_player, history,
                   forced_game_over, base, searches, bitboard, save,
                   game, timer, now, granted>>

NextHeur ==
    \/ \E x \in 0 .. size - 1, y \in 0 .. size - 1 : PlayMove(x, y, MaxPlies)
    \/ \E heuristic \in Heuristics, max_player \in {BLACK, WHITE} :
          Heuristic(heuristic, max_player)

SpecHeur == Init /\ [][NextHeur]_vars

(***************************************************************************)
(* Ninth specification: saving and loading.  From a recorded opening the   *)
(* driver plays legal moves, writes the board with export(), may edit one  *)
(* cell or the color to move of the text written, and hands the text to    *)
(* BoardParser(text).parse().  `save` is the text, `last` records the      *)
(* board parse returned and the exception it raised.                       *)
(***************************************************************************)
\* save = board.export()
Export ==
    /\ save' = export(Board)
    /\ last' = [op |-> "export", exc |-> "none"]
    /\ UNCHANGED <<size, black, white, current_player, history,
                   forced_game_over, base, searches, bitboard,
                   game, timer, now, granted>>

\* the text written by export with the cell (x, y) of its grid replaced
EditCell(x, y, cell) ==
    /\ save # NoSave
    /\ save.rows[y + 1][x + 1] # cell
    /\ save = export(Board)
    /\ save' = [save EXCEPT !.rows[y + 1][x + 1] = cell]
    /\ last' = [op |-> "edit", exc |-> "none"]
    /\ UNCHANGED <<size, black, white, current_player, history,
                   forced_game_over, base, searches, bitboard,
                   game, timer, now, granted>>

\* the text written by export with the other color to move
EditPlayer ==
    /\ save # NoSave
    /\ save = export(Board)
    /\ save' = [save EXCEPT !.player = Invert(@)]
    /\ last' = [op |-> "edit", exc |-> "none"]
    /\ UNCHANGED <<size, black, white, current_player, history,
                   forced_game_over, base, searches, bitboard,
                   game, timer, now, granted>>

\* BoardParser(save).parse()
Parse ==
    /\ save # NoSave
    /\ LET r == parse(save)
       IN last' = [op |-> "parse", exc |-> r.exc, board |-> r.board]
    /\ UNCHANGED <<size, black, white, current_player, history,
                   forced_game_over, base, searches, bitboard, save,
                   game, timer, now, granted>>

NextSave ==
    \/ \E x \in 0 .. size - 1, y \in 0 .. size - 1 : PlayMove(x, y, MaxPlies)
    \/ Export
    \/ \E c \in Corners(size), cell \in {BLACK, WHITE, EMPTY, "·"} :
          EditCell(c % size, c \div size, cell)
    \/ EditPlayer
    \/ Parse

SpecSave == Init /\ [][NextSave]_vars

(***************************************************************************)
(* Tenth specification: a search from a forced pass.  The driver plays     *)
(* legal moves and pops them one entry at a time, which, as the single     *)
(* board.pop() of the searches does after a move with an automatic pass,   *)
(* leaves a board whose player to move has no move; on such a board it     *)
(* calls minimax and alphabeta with a depth of at least 1.                 *)
(***************************************************************************)
\* minimax and alphabeta, lines 155-159 and 208-212: the case of the test
\* valid_moves == [] on a board that is not over
ForcedPass(B) ==
    /\ line_cap_move(B, B.current_player) = {}
    /\ ~is_game_over(B)

NextPass ==
    \/ \E x \in 0 .. size - 1, y \in 0 .. size - 1 : PlayMove(x, y, MaxPlies)
    \/ Pop
    \/ /\ ForcedPass(Board)
       /\ \E depth \in 1 .. MaxDepth, max_player \in {BLACK, WHITE},
             heuristic \in Heuristics : Minimax(depth, max_player, heuristic)
    \/ /\ ForcedPass(Board)
       /\ \E depth \in 1 .. MaxDepth, max_player \in {BLACK, WHITE},
             heuristic \in Heuristics : Alphabeta(depth, max_player, heuristic)

SpecPass == Init /\ [][NextPass]_vars

(***************************************************************************)
(* BlitzTimer (blitz_timer.py; blitzTimer.py is the same class under       *)
(* camel-case names).  Times are whole seconds.  None is 0 for start_time  *)
(* and "none" for current_player: both are false in `if self.start_time    *)
(* and ...`, as is a start_time of 0, and time() is never 0.  The second   *)
(* argument of the operators is the value time() returns during the call.  *)
(***************************************************************************)
\* the value of time() when a session starts
Epoch == 1
\* the seconds that pass between two calls
SecondsPerTick == 20
\* number of ticks of a session
MaxTicks == 4
\* largest time limit, in minutes
MaxTimeLimit == 1

Players == {"black", "white"}

\* BlitzTimer(time_limit)
BlitzTimer(time_limit) ==
    [start_time |-> 0,
     remaining_time |-> [black |-> time_limit * 60, white |-> time_limit * 60],
     current_player |-> "none"]

\* the test `self.start_time and self.current_player`
timer_running(T) == T.start_time # 0 /\ T.current_player # "none"

start_timer(T, player, time) ==
    [T EXCEPT !.start_time = time, !.current_player = player]

pause_timer(T, time) ==
    IF timer_running(T)
    THEN [T EXCEPT !.remaining_time[T.current_player] =
                       Max(0, @ - (time - T.start_time)),
                   !.start_time = 0,
                   !.current_player = "none"]
    ELSE T

change_player(T, player, time) == start_timer(pause_timer(T, time), player, time)

\* returns the timer after the call and the value returned: the elapsed
\* time is subtracted from the stored value and start_time is kept
get_remaining_time(T, player, time) ==
    IF T.start_time # 0 /\ player = T.current_player
    THEN LET left == Max(0, T.remaining_time[player] - (time - T.start_time))
         IN [timer |-> [T EXCEPT !.remaining_time[player] = left],
             val |-> left]
    ELSE [timer |-> T, val |-> T.remaining_time[player]]

is_time_up(T, player, time) ==
    LET r == get_remaining_time(T, player, time)
    IN [timer |-> r.timer, val |-> r.val <= 0]

(***************************************************************************)
(* Eleventh specification: a session on one BlitzTimer.  The driver        *)
(* constructs the timer, calls its methods in any order and lets time      *)
(* pass.  `now` is time(), `granted` the remaining time the running        *)
(* player had at the last start_timer or change_player, `last` the last    *)
(* call, the value it returned and the value stored before it.             *)
(***************************************************************************)
InitTimer ==
    /\ size = 6
    /\ black = NewBoard(6).black
    /\ white = NewBoard(6).white
    /\ current_player = BLACK
    /\ history = <<>>
    /\ forced_game_over = FALSE
    /\ last = [op |-> "init", exc |-> "none"]
    /\ base = 0
    /\ searches = 0
    /\ bitboard = NoBitboard
    /\ save = NoSave
    /\ game = NoGame
    /\ \E time_limit \in 1 .. MaxTimeLimit : timer = BlitzTimer(time_limit)
    /\ now = Epoch
    /\ granted = 0

TimerUnchanged ==
    UNCHANGED <<size, black, white, current_player, history,
                forced_game_over, base, searches, bitboard, save, game>>

\* time passes
Tick ==
    /\ now + SecondsPerTick <= Epoch + MaxTicks * SecondsPerTick
    /\ now' = now + SecondsPerTick
    /\ last' = [op |-> "tick", exc |-> "none"]
    /\ UNCHANGED <<timer, granted>>
    /\ TimerUnchanged

StartTimer(player) ==
    /\ timer' = start_timer(timer, player, now)
    /\ granted' = timer.remaining_time[player]
    /\ last' = [op |-> "start_timer", exc |-> "none", player |-> player]
    /\ UNCHANGED now
    /\ TimerUnchanged

PauseTimer ==
    /\ timer' = pause_timer(timer, now)
    /\ last' = [op |-> "pause_timer", exc |-> "none"]
    /\ UNCHANGED <<now, granted>>
    /\ TimerUnchanged

ChangePlayer(player) ==
    /\ timer' = change_player(timer, player, now)
    /\ granted' = pause_timer(timer, now).remaining_time[player]
    /\ last' = [op |-> "change_player", exc |-> "none", player |-> player]
    /\ UNCHANGED now
    /\ TimerUnchanged

GetRemainingTime(player) ==
    /\ LET r == get_remaining_time(timer, player, now)
       IN /\ timer' = r.timer
          /\ last' = [op |-> "get_remaining_time", exc |-> "none",
                      player |-> player, val |-> r.val,
                      stored |-> timer.remaining_time[player]]
    /\ UNCHANGED <<now, granted>>
    /\ TimerUnchanged

IsTimeUp(player) ==
    /\ LET r == is_time_up(timer, player, now)
       IN /\ timer' = r.timer
          /\ last' = [op |-> "is_time_up", exc |-> "none",
                      player |-> player, val |-> r.val]
    /\ UNCHANGED <<now, granted>>
    /\ TimerUnchanged

NextTimer ==
    \/ Tick
    \/ \E player \in Players : StartTimer(player)
    \/ PauseTimer
    \/ \E player \in Players : ChangePlayer(player)
    \/ \E player \in Players : GetRemainingTime(player)
    \/ \E player \in Players : IsTimeUp(player)

SpecTimer == InitTimer /\ [][NextTimer]_vars

(***************************************************************************)
(* NormalGame (game_modes.py).  The game keeps its own current_player,     *)
(* toggled by switch_player after every move played, and two flags         *)
(* no_black_move and no_white_move that check_game_over sets and nothing   *)
(* clears.  `pc` is where the program is: in the loop of play, at          *)
(* display_board ("display"), at check_game_over ("check"), waiting at     *)
(* the input() of play ("input") or of print_rules ("rules"), or out of    *)
(* the loop after sys.exit ("exited") or an exception no handler of play   *)
(* catches ("crashed").                                                    *)
(***************************************************************************)
\* NormalGame(filename, board_size) holding the board B
NormalGame(B) ==
    [current_player |-> B.current_player, no_black_move |-> FALSE,
     no_white_move |-> FALSE, pc |-> "display"]

\* NormalGame.get_possible_moves
get_possible_moves(G, B) == line_cap_move(B, G.current_player)

\* NormalGame.check_game_over: the game after the call and the value
\* returned
check_game_over(G, B, possible_moves) ==
    IF possible_moves = {}
    THEN LET flagged ==
                 [G EXCEPT !.no_black_move = @ \/ G.current_player = BLACK,
                           !.no_white_move = @ \/ G.current_player = WHITE]
         IN [game |-> flagged,
             val |-> flagged.no_black_move /\ flagged.no_white_move]
    ELSE [game |-> G,
          val |-> /\ popcount(B.black) + popcount(B.white) = B.size * B.size
                  /\ popcount(B.black) # popcount(B.white)]

\* NormalGame.switch_player
switch_player(G) == [G EXCEPT !.current_player = Invert(@)]

(***************************************************************************)
(* Twelfth specification: NormalGame.play.  The game is started on a       *)
(* fresh board or loaded from the save of a recorded game before its last  *)
(* move; an iteration of the loop is display_board, check_game_over and,   *)
(* when the game is not over, the line read and its command.               *)
(* Moves follow a recorded game or leave it by at most MaxPlies entries    *)
(* of the history.                                                         *)
(***************************************************************************)
\* nine legal moves, the last of which leaves WHITE without a move
WhitePassGame == <<<<1, 2>>, <<1, 1>>, <<2, 1>>, <<3, 1>>, <<0, 0>>,
                   <<1, 3>>, <<3, 0>>, <<0, 1>>, <<0, 2>>>>

\* the recorded games: WhitePassGame, and eight legal moves the last of
\* which leaves BLACK without a move
RecordedGames == {PassOpening \o <<<<0, 2>>>>, WhitePassGame}

\* (x, y) is the next move of a recorded game played so far on B
FollowsRecordedGame(B, x, y) ==
    \E moves \in RecordedGames : \E k \in 0 .. Len(moves) - 1 :
        /\ moves[k + 1] = <<x, y>>
        /\ Replay(NewBoard(B.size), SubSeq(moves, 1, k)) = B

InitNormal ==
    \E moves \in RecordedGames : \E k \in 0 .. Len(moves) - 1 :
        LET B == Replay(NewBoard(6), SubSeq(moves, 1, k))
        IN /\ size = B.size
           /\ black = B.black
           /\ white = B.white
           /\ current_player = B.current_player
           /\ history = B.history
           /\ forced_game_over = B.forced_game_over
           /\ last = [op |-> "init", exc |-> "none"]
           /\ base = Len(B.history)
           /\ searches = 0
           /\ bitboard = NoBitboard
           /\ save = NoSave
           /\ game = NormalGame(B)
           /\ timer = NoTimer
           /\ now = 0
           /\ granted = 0

\* the head of an iteration: display_board, get_possible_moves
DisplayBoard ==
    /\ game.pc = "display"
    /\ game' = [game EXCEPT !.pc = "check"]
    /\ UNCHANGED <<size, black, white, current_player, history,
                   forced_game_over, last, base, searches, bitboard, save,
                   timer, now, granted>>

\* check_game_over on the moves of the head of the iteration: on True the
\* loop continues, on False the program waits at input()
LoopCheckGameOver ==
    /\ game.pc = "check"
    /\ LET c == check_game_over(game, Board, get_possible_moves(game, Board))
       IN /\ game' = [c.game EXCEPT !.pc = IF c.val THEN "display"
                                                    ELSE "input"]
          /\ last' = [op |-> "check_game_over", exc |-> "none",
                      val |-> c.val]
    /\ UNCHANGED <<size, black, white, current_player, history,
                   forced_game_over, base, searches, bitboard, save,
                   timer, now, granted>>

\* the line read is the move (x, y): process_move on the moves of the head
\* of the iteration, then switch_player
LoopPlayMove(x, y) ==
    /\ game.pc = "input"
    /\ \/ Len(history) - base < MaxPlies
       \/ FollowsRecordedGame(Board, x, y)
    /\ LET possible_moves == get_possible_moves(game, Board)
       IN IF coords_to_bit_idx(x, y, size) \notin possible_moves
          THEN /\ game' = [game EXCEPT !.pc = "display"]
               /\ last' = [op |-> "process_move", exc |-> "none",
                           val |-> FALSE]
               /\ UNCHANGED <<size, black, white, current_player,
                              history, forced_game_over>>
          ELSE LET r == play(Board, x, y)
               IN /\ SetBoard(r.board)
                  /\ game' = IF r.exc = "none"
                             THEN [switch_player(game)
                                       EXCEPT !.pc = "display"]
                             ELSE [game EXCEPT !.pc = "crashed"]
                  /\ last' = [op |-> "process_move", exc |-> r.exc,
                              val |-> r.exc = "none"]
    /\ UNCHANGED <<base, searches, bitboard, save, timer, now, granted>>

\* the line read is the command restart: board.restart()
LoopRestart ==
    /\ game.pc = "input"
    /\ game' = [game EXCEPT !.pc = "display"]
    /\ SetBoard(restart(Board))
    /\ base' = 0
    /\ last' = [op |-> "restart", exc |-> "none"]
    /\ UNCHANGED <<searches, bitboard, save, timer, now, granted>>

\* the line read is the command s or sh: save_board_state_history writes
\* board.export() to the save file, then sys.exit
LoopSaveAndQuit ==
    /\ game.pc = "input"
    /\ save' = export(Board)
    /\ game' = [game EXCEPT !.pc = "exited"]
    /\ last' = [op |-> "save", exc |-> "none"]
    /\ UNCHANGED <<size, black, white, current_player, history,
                   forced_game_over, base, searches, bitboard,
                   timer, now, granted>>

\* the line read is the command q: sys.exit
LoopQuit ==
    /\ game.pc = "input"
    /\ game' = [game EXCEPT !.pc = "exited"]
    /\ last' = [op |-> "quit", exc |-> "none"]
    /\ UNCHANGED <<size, black, white, current_player, history,
                   forced_game_over, base, searches, bitboard, save,
                   timer, now, granted>>

\* the line read is the command ff: switch_player, then sys.exit
LoopForfeit ==
    /\ game.pc = "input"
    /\ game' = [switch_player(game) EXCEPT !.pc = "exited"]
    /\ last' = [op |-> "forfeit", exc |-> "none"]
    /\ UNCHANGED <<size, black, white, current_player, history,
                   forced_game_over, base, searches, bitboard, save,
                   timer, now, granted>>

\* the line read is ? or a line that is no command: print_help
LoopHelp ==
    /\ game.pc = "input"
    /\ game' = [game EXCEPT !.pc = "display"]
    /\ last' = [op |-> "help", exc |-> "none"]
    /\ UNCHANGED <<size, black, white, current_player, history,
                   forced_game_over, base, searches, bitboard, save,
                   timer, now, granted>>

\* the line read is the command r: print_rules prints the rules and waits
\* at its own input()
LoopRules ==
    /\ game.pc = "input"
    /\ game' = [game EXCEPT !.pc = "rules"]
    /\ last' = [op |-> "rules", exc |-> "none"]
    /\ UNCHANGED <<size, black, white, current_player, history,
                   forced_game_over, base, searches, bitboard, save,
                   timer, now, granted>>

\* a line is read by print_rules, which returns: the iteration ends
RulesContinue ==
    /\ game.pc = "rules"
    /\ game' = [game EXCEPT !.pc = "display"]
    /\ UNCHANGED <<size, black, white, current_player, history,
                   forced_game_over, last, base, searches, bitboard, save,
                   timer, now, granted>>

NextNormal ==
    \/ DisplayBoard
    \/ LoopCheckGameOver
    \/ \E x \in 0 .. size - 1, y \in 0 .. size - 1 : LoopPlayMove(x, y)
    \/ LoopRestart
    \/ LoopSaveAndQuit
    \/ LoopQuit
    \/ LoopForfeit
    \/ LoopHelp
    \/ LoopRules
    \/ RulesContinue

SpecNormal == InitNormal /\ [][NextNormal]_vars

\* the program runs: the steps that read no input are taken when they can
\* be; nothing makes the user type a line
SpecNormalFair == InitNormal /\ [][NextNormal]_vars /\ WF_vars(DisplayBoard) /\ WF_vars(LoopCheckGameOver)

(***************************************************************************)
(* OthelloCLI in blitz mode (cli.py).  The CLI holds a GameController,     *)
(* whose play, restart, is_game_over and get_current_player are those of   *)
(* its board, and a BlitzTimer.                                            *)
(***************************************************************************)
\* "black" for Color.BLACK, "white" for Color.WHITE
color_name(c) == IF c = BLACK THEN "black" ELSE "white"

\* OthelloCLI.process_move with blitz_mode set: the timer and the board it
\* leaves and the value it returns; GameOverException is caught, any
\* other exception of play cannot be raised by a move of possible_moves
cli_process_move(T, B, x_coord, y_coord, possible_moves, time) ==
    IF coords_to_bit_idx(x_coord, y_coord, B.size) \notin possible_moves
    THEN [timer |-> T, board |-> B, val |-> FALSE]
    ELSE LET current == color_name(B.current_player)
             changed == change_player(
                            T, IF current = "black" THEN "white" ELSE "black",
                            time)
         IN [timer |-> changed,
             board |-> play(B, x_coord, y_coord).board,
             val |-> TRUE]

\* BlitzTimer.display_time: the remaining time of both players is read
display_time(T, time) ==
    get_remaining_time(get_remaining_time(T, "black", time).timer,
                       "white", time).timer

\* OthelloCLI.check_game_over with blitz_mode set
cli_check_game_over(T, B, time) ==
    LET b == is_time_up(T, "black", time)
        w == is_time_up(b.timer, "white", time)
    IN IF b.val THEN [timer |-> b.timer, val |-> TRUE]
       ELSE IF w.val THEN [timer |-> w.timer, val |-> TRUE]
       ELSE [timer |-> w.timer, val |-> is_game_over(B)]

(***************************************************************************)
(* Thirteenth specification: OthelloCLI.play in blitz mode with two human  *)
(* players, on a fresh board or the board of a recorded game.  game.pc is  *)
(* where the program is: at the test of the loop ("check"), waiting at     *)
(* input() ("input"), or out of the loop; time passes at any point.        *)
(***************************************************************************)
InitBlitz ==
    \E moves \in Openings(6) : \E time_limit \in 1 .. MaxTimeLimit :
        LET B == Replay(NewBoard(6), moves)
        IN /\ size = B.size
           /\ black = B.black
           /\ white = B.white
           /\ current_player = B.current_player
           /\ history = B.history
           /\ forced_game_over = B.forced_game_over
           /\ last = [op |-> "init", exc |-> "none"]
           /\ base = Len(B.history)
           /\ searches = 0
           /\ bitboard = NoBitboard
           /\ save = NoSave
           /\ game = [NoGame EXCEPT !.pc = "check"]
           /\ timer = start_timer(BlitzTimer(time_limit), "black", Epoch)
           /\ now = Epoch
           /\ granted = time_limit * 60

\* time passes while the CLI runs
CliTick ==
    /\ game.pc \in {"check", "input"}
    /\ now + SecondsPerTick <= Epoch + MaxTicks * SecondsPerTick
    /\ now' = now + SecondsPerTick
    /\ last' = [op |-> "tick", exc |-> "none"]
    /\ UNCHANGED <<size, black, white, current_player, history,
                   forced_game_over, base, searches, bitboard, save,
                   game, timer, granted>>

\* the test of the loop; when the game goes on, next_move calls
\* human_play_callback, which prints display_time() and waits for a line
CliCheckGameOver ==
    /\ game.pc = "check"
    /\ LET c == cli_check_game_over(timer, Board, now)
       IN /\ timer' = IF c.val THEN c.timer ELSE display_time(c.timer, now)
          /\ game' = [game EXCEPT !.pc = IF c.val THEN "over" ELSE "input"]
          /\ last' = [op |-> "check_game_over", exc |-> "none",
                      val |-> c.val]
    /\ UNCHANGED <<size, black, white, current_player, history,
                   forced_game_over, base, searches, bitboard, save,
                   now, granted>>

\* the line read is the move (x, y): check_parser_input, process_move
CliPlayMove(x, y) ==
    /\ game.pc = "input"
    /\ Len(history) - base < MaxPlies
    /\ LET r == cli_process_move(timer, Board, x, y,
                                 line_cap_move(Board, current_player), now)
       IN /\ SetBoard(r.board)
          /\ timer' = r.timer
          /\ granted' = IF r.val
                        THEN r.timer.remaining_time[r.timer.current_player]
                        ELSE granted
          /\ last' = [op |-> "process_move", exc |-> "none", val |-> r.val]
    /\ game' = [game EXCEPT !.pc = "check"]
    /\ UNCHANGED <<base, searches, bitboard, save, now>>

\* the line read is restart
CliRestart ==
    /\ game.pc = "input"
    /\ SetBoard(restart(Board))
    /\ base' = 0
    /\ game' = [game EXCEPT !.pc = "check"]
    /\ last' = [op |-> "restart", exc |-> "none"]
    /\ UNCHANGED <<searches, bitboard, save, timer, now, granted>>

\* the line read is s or sh: save_board_state_history writes the export
\* of the board to the save file, then sys.exit
CliSaveAndQuit ==
    /\ game.pc = "input"
    /\ save' = export(Board)
    /\ game' = [game EXCEPT !.pc = "exited"]
    /\ last' = [op |-> "save", exc |-> "none"]
    /\ UNCHANGED <<size, black, white, current_player, history,
                   forced_game_over, base, searches, bitboard,
                   timer, now, granted>>

\* the line read is q or ff: sys.exit.  ff sets an attribute of the
\* controller first, which no method reads; the board is left as it is
CliQuit ==
    /\ game.pc = "input"
    /\ game' = [game EXCEPT !.pc = "exited"]
    /\ last' = [op |-> "quit", exc |-> "none"]
    /\ UNCHANGED <<size, black, white, current_player, history,
                   forced_game_over, base, searches, bitboard, save,
                   timer, now, granted>>

NextBlitz ==
    \/ CliTick
    \/ CliCheckGameOver
    \/ \E x \in 0 .. size - 1, y \in 0 .. size - 1 : CliPlayMove(x, y)
    \/ CliRestart
    \/ CliSaveAndQuit
    \/ CliQuit

SpecBlitz == InitBlitz /\ [][NextBlitz]_vars

(***************************************************************************)
(* Vocabulary of the properties: the rules of the game stated on           *)
(* coordinates, independently of the bitboard arithmetic.                  *)
(***************************************************************************)
XOf(idx, n) == idx % n
YOf(idx, n) == idx \div n
OnBoard(x, y, n) == 0 <= x /\ x < n /\ 0 <= y /\ y < n
Cell(x, y, n) == y * n + x
Bits(B, player) == IF player = BLACK THEN B.black ELSE B.white

\* the offsets of the 8 directions
Offsets == {<<0, -1>>, <<0, 1>>, <<1, 0>>, <<-1, 0>>,
            <<1, -1>>, <<-1, -1>>, <<1, 1>>, <<-1, 1>>}

\* walking from (x, y) along the offset d over the opponent discs in `run`:
\* the whole run when a disc of player ends it, nothing when an empty cell
\* or the edge does
RECURSIVE Walk(_, _, _, _, _, _)
Walk(B, player, x, y, d, run) ==
    IF ~OnBoard(x + d[1], y + d[2], B.size) THEN {}
    ELSE IF Cell(x + d[1], y + d[2], B.size) \in Bits(B, Invert(player))
         THEN Walk(B, player, x + d[1], y + d[2], d,
                   run \cup {Cell(x + d[1], y + d[2], B.size)})
         ELSE IF Cell(x + d[1], y + d[2], B.size) \in Bits(B, player)
              THEN run
              ELSE {}

\* the discs a disc of player put on (x, y) outflanks along d
Run(B, player, x, y, d) == Walk(B, player, x, y, d, {})

\* the rules of the game let player put a disc on the cell c
IsRuleMove(B, player, c) ==
    /\ c \notin B.black \cup B.white
    /\ \E d \in Offsets :
          Run(B, player, XOf(c, B.size), YOf(c, B.size), d) # {}

\* the cells the rules of the game let player put a disc on
RuleMoves(B, player) == {c \in mask(B.size) : IsRuleMove(B, player, c)}

\* the rules of the game leave player a move
HasRuleMove(B, player) == \E c \in mask(B.size) : IsRuleMove(B, player, c)

\* the legal moves of the player to move, as coordinates inside the board
LegalMoves(B) ==
    {<<XOf(c, B.size), YOf(c, B.size)>> : c \in line_cap_move(B, B.current_player)}

IsPassEntry(e) == e[3] = -1 /\ e[4] = -1
NonPassEntries(h) == {i \in DOMAIN h : ~IsPassEntry(h[i])}

\* the last call was a play that put a disc on the board
MovePlayed ==
    /\ last.op = "play"
    /\ last.exc \in {"none", "GameOverException"}
    /\ Len(history) > base
    /\ \/ ~IsPassEntry(history[Len(history)])
       \/ /\ Len(history) > base + 1
          /\ history[Len(history)][5] = Invert(current_player)
          /\ ~IsPassEntry(history[Len(history) - 1])

(***************************************************************************)
(* C1.  Push/pop inverse law: on every board reached from a fresh board by *)
(* legal play and for every legal move (x, y) of the player to move,       *)
(* play(x, y) followed by one pop() restores black, white, current_player  *)
(* and the history length.                                                 *)
(***************************************************************************)
C1_PlayPopInverse ==
    \A m \in LegalMoves(Board) :
        LET after == pop(play(Board, m[1], m[2]).board).board
        IN /\ after.black = black
           /\ after.white = white
           /\ after.current_player = current_player
           /\ Len(after.history) = Len(history)

(***************************************************************************)
(* C2.  No cell is set in both the black and the white bitboard, in every  *)
(* state reached by play (moves, passes) and pop.                          *)
(***************************************************************************)
C2_Disjoint == black \cap white = {}

\* a move that flipped discs has just been played
C2_Witness ==
    /\ MovePlayed
    /\ \E i \in DOMAIN history :
          history[i][1] \cap white # {} \/ history[i][2] \cap black # {}

(***************************************************************************)
(* C3.  Disc conservation: the number of discs on the board is 4 plus the  *)
(* number of non-pass entries of the history.                              *)
(***************************************************************************)
C3_DiscConservation ==
    popcount(black) + popcount(white) = 4 + Cardinality(NonPassEntries(history))

\* a move has just been played and the history holds a pass entry as well
C3_Witness ==
    /\ MovePlayed
    /\ \E i \in DOMAIN history : IsPassEntry(history[i])
    /\ popcount(black) + popcount(white) > 4

(***************************************************************************)
(* C4.  line_cap_move(P) holds a cell iff the cell is empty and, walking   *)
(* from it in one of the 8 directions, one meets one or more opponent      *)
(* discs immediately followed by a disc of P; on a fresh 8x8 board BLACK   *)
(* has exactly the moves (2,3), (3,2), (4,5), (5,4).                       *)
(***************************************************************************)
C4_LegalMoves ==
    /\ \A player \in {BLACK, WHITE} :
          line_cap_move(Board, player) = RuleMoves(Board, player)
    /\ line_cap_move(NewBoard(8), BLACK)
          = {Cell(2, 3, 8), Cell(3, 2, 8), Cell(4, 5, 8), Cell(5, 4, 8)}

\* a built position where a disc in the last column faces an opponent disc
\* in the first column of the next row, and a move exists
C4_Witness ==
    /\ last.op = "set"
    /\ \E y \in 0 .. size - 2 :
          /\ Cell(size - 1, y, size) \in black
          /\ Cell(0, y + 1, size) \in white
    /\ line_cap_move(Board, BLACK) # {}

(***************************************************************************)
(* C5.  For every legal move (x, y) of P, line_cap(x, y, P) is the cell    *)
(* (x, y) plus, for each direction independently, the contiguous run of    *)
(* opponent discs next to (x, y) when a disc of P immediately follows it;  *)
(* a run that ends on an empty cell or the edge contributes nothing.       *)
(***************************************************************************)
C5_Capture ==
    \A player \in {BLACK, WHITE} : \A c \in line_cap_move(Board, player) :
        line_cap(Board, XOf(c, size), YOf(c, size), player)
            = {c} \cup UNION {Run(Board, player, XOf(c, size), YOf(c, size), d) :
                              d \in Offsets}

\* a built position with a legal move next to an opponent run that is not
\* closed by a disc of the mover in some direction and closed in another
C5_Witness ==
    /\ last.op = "set"
    /\ \E c \in line_cap_move(Board, BLACK) :
          /\ \E d \in Offsets :
                /\ OnBoard(XOf(c, size) + d[1], YOf(c, size) + d[2], size)
                /\ Cell(XOf(c, size) + d[1], YOf(c, size) + d[2], size) \in white
                /\ Run(Board, BLACK, XOf(c, size), YOf(c, size), d) = {}
          /\ \E d \in Offsets :
                Cardinality(Run(Board, BLACK, XOf(c, size), YOf(c, size), d)) >= 2

(***************************************************************************)
(* C6.  A legal play(x, y) by P on bitboards (b, w) first appends the      *)
(* history entry (b, w, x, y, P); P's bitboard becomes its old value OR    *)
(* line_cap(x, y, P), the opponent's its old value AND NOT that mask.      *)
(***************************************************************************)
C6_PlayEffect ==
    \A m \in LegalMoves(Board) :
        LET after == play(Board, m[1], m[2]).board
            cap == line_cap(Board, m[1], m[2], current_player)
        IN /\ Len(after.history) > Len(history)
           /\ after.history[Len(history) + 1]
                 = <<black, white, m[1], m[2], current_player>>
           /\ Bits(after, current_player) = Bits(Board, current_player) \cup cap
           /\ Bits(after, Invert(current_player))
                 = Bits(Board, Invert(current_player)) \ cap

\* a move has just been played on a board that still has legal moves
C6_Witness ==
    /\ MovePlayed
    /\ Len(history) - base < MaxPlies
    /\ LegalMoves(Board) # {}

(***************************************************************************)
(* C7.  For every pair (x, y) other than (-1, -1) that is not a cell of    *)
(* line_cap_move(current_player), pairs outside [0, size) included,        *)
(* play(x, y) fails with IllegalMove and changes nothing.                  *)
(***************************************************************************)
C7_IllegalRejected ==
    \A x \in Coord(size), y \in Coord(size) :
        (/\ ~(x = -1 /\ y = -1)
         /\ <<x, y>> \notin LegalMoves(Board))
        => /\ play(Board, x, y).exc = "IllegalMoveException"
           /\ play(Board, x, y).board = Board

(***************************************************************************)
(* C8.  Auto-pass: after a legal play(x, y) by P, if the opponent has no   *)
(* legal move on the resulting position, a second history entry (-1, -1)   *)
(* attributed to the opponent is appended and current_player is P again;   *)
(* otherwise exactly one entry is appended and current_player is the       *)
(* opponent.                                                               *)
(***************************************************************************)
C8_AutoPass ==
    \A m \in LegalMoves(Board) :
        LET after == play(Board, m[1], m[2]).board
            P == current_player
        IN IF ~HasRuleMove(after, Invert(P))
           THEN /\ Len(after.history) = Len(history) + 2
                /\ IsPassEntry(after.history[Len(history) + 2])
                /\ after.history[Len(history) + 2][5] = Invert(P)
                /\ after.current_player = P
           ELSE /\ Len(after.history) = Len(history) + 1
                /\ after.current_player = Invert(P)

\* a move has just been played, the opponent was passed and the game goes on
C8_Witness ==
    /\ last.op = "play"
    /\ last.exc = "none"
    /\ Len(history) > base + 1
    /\ IsPassEntry(history[Len(history)])
    /\ ~IsPassEntry(history[Len(history) - 1])
    /\ history[Len(history)][5] = Invert(current_player)

(***************************************************************************)
(* C9.  play(x, y) with a legal move signals GameOver iff neither player   *)
(* has a legal move on the position after the move.                        *)
(***************************************************************************)
C9_GameOver ==
    \A m \in LegalMoves(Board) :
        LET r == play(Board, m[1], m[2])
        IN (r.exc = "GameOverException")
           <=> (~HasRuleMove(r.board, BLACK) /\ ~HasRuleMove(r.board, WHITE))

\* a move has just ended the game
C9_Witness ==
    /\ MovePlayed
    /\ last.exc = "GameOverException"
    /\ ~HasRuleMove(Board, BLACK)
    /\ ~HasRuleMove(Board, WHITE)

(***************************************************************************)
(* C10.  play(-1, -1) appends the one history entry                        *)
(* (black, white, -1, -1, current_player), leaves both bitboards unchanged *)
(* and flips current_player to the opponent.                               *)
(***************************************************************************)
C10_PassFlips ==
    LET after == play(Board, -1, -1).board
    IN /\ after.history = Append(history, <<black, white, -1, -1, current_player>>)
       /\ after.black = black
       /\ after.white = white
       /\ after.current_player = Invert(current_player)

(***************************************************************************)
(* C11.  pop() on a non-empty history removes exactly the last entry and   *)
(* sets black, white and current_player to the values recorded in that     *)
(* entry; pop() on an empty history fails with CannotPopException and      *)
(* changes nothing.                                                        *)
(***************************************************************************)
C11_Pop ==
    LET r == pop(Board)
    IN IF history = <<>>
       THEN /\ r.exc = "CannotPopException"
            /\ r.board = Board
       ELSE /\ r.exc = "none"
            /\ Append(r.board.history, history[Len(history)]) = history
            /\ r.board.black = history[Len(history)][1]
            /\ r.board.white = history[Len(history)][2]
            /\ r.board.current_player = history[Len(history)][5]
            /\ r.board.size = size

\* a pop has just undone the only move of the history: the entry it removed
\* held the fresh board, and the next pop meets an empty history
C11_Witness ==
    /\ last.op = "pop"
    /\ last.exc = "none"
    /\ history = <<>>
    /\ Board = NewBoard(size)

(***************************************************************************)
(* C12.  is_game_over() returns true if and only if forced_game_over has   *)
(* been set or line_cap_move is empty for current_player and for its       *)
(* opponent.                                                               *)
(***************************************************************************)
C12_GameOverIff ==
    is_game_over(Board)
        <=> \/ forced_game_over
            \/ /\ line_cap_move(Board, current_player) = {}
               /\ line_cap_move(Board, Invert(current_player)) = {}

\* the end of the game has just been forced on a board whose player to move
\* has a legal move
C12_Witness ==
    /\ last.op = "force_game_over"
    /\ forced_game_over
    /\ line_cap_move(Board, current_player) # {}
    /\ is_game_over(Board)

(***************************************************************************)
(* C13.  In every state reached from a fresh board by play (explicit       *)
(* passes included) and pop, current_player is the color whose turn is     *)
(* next: the history entry of index i (counted from 0) was made by BLACK   *)
(* iff i is even, current_player is BLACK iff the history length is even,  *)
(* and get_turn_id() is history_length // 2 + 1.                           *)
(***************************************************************************)
C13_TurnParity ==
    /\ \A i \in DOMAIN history : (history[i][5] = BLACK) <=> ((i - 1) % 2 = 0)
    /\ (current_player = BLACK) <=> (Len(history) % 2 = 0)
    /\ get_turn_id(Board) = Len(history) \div 2 + 1

(***************************************************************************)
(* Vocabulary of the properties of the searches.                           *)
(***************************************************************************)
\* the board has been reached by legal play alone: no search has worked on it
ReachedByPlay == searches = 0

SetMax(S) == CHOOSE v \in S : \A w \in S : w <= v
SetMin(S) == CHOOSE v \in S : \A w \in S : v <= w

\* the position that playing the legal move m on B produces
Child(B, m) == play(B, m[1], m[2]).board

\* the best of the scores: the largest for max_player's own turn, the
\* smallest for the opponent's
BestOf(B, max_player, scores) ==
    IF max_player = B.current_player THEN SetMax(scores) ELSE SetMin(scores)

\* what a call gives its caller: the exception that escapes it, and the score
Outcome(r) == [exc |-> r.exc, val |-> r.val]

(***************************************************************************)
(* C14.  minimax(board, depth, max_player, h) equals h(board, max_player)  *)
(* when depth = 0 or the game is over; otherwise, when the player to move  *)
(* has legal moves, it equals the maximum (current_player = max_player) or *)
(* the minimum (otherwise), over the legal moves m of the position, of     *)
(* minimax at depth - 1 on the position that playing m produces.           *)
(***************************************************************************)
C14_MinimaxValue ==
    ReachedByPlay =>
    \A depth \in Depths, max_player \in {BLACK, WHITE}, h \in Heuristics :
        LET r == minimax(Board, depth, max_player, h)
        IN IF depth = 0 \/ is_game_over(Board)
           THEN /\ r.exc = "none"
                /\ r.val = heuristic_call(h, Board, max_player)
           ELSE LegalMoves(Board) # {}
                => /\ r.exc = "none"
                   /\ r.val = BestOf(Board, max_player,
                          {minimax(Child(Board, m), depth - 1, max_player, h).val :
                              m \in LegalMoves(Board)})

(***************************************************************************)
(* C15.  On every board reached by legal play, for every max_player, every *)
(* heuristic and every depth, minimax(board, depth, max_player, h) and     *)
(* alphabeta(board, depth, -inf, +inf, max_player, h) have the same        *)
(* outcome: the same returned score.                                       *)
(***************************************************************************)
C15_AlphabetaEquivalence ==
    ReachedByPlay =>
    \A depth \in Depths, max_player \in {BLACK, WHITE}, h \in Heuristics :
        Outcome(minimax(Board, depth, max_player, h))
            = Outcome(alphabeta(Board, depth, NegInf, PosInf, max_player, h))

(***************************************************************************)
(* C16.  Push/pop symmetry of the searches: when minimax or alphabeta      *)
(* returns, black, white, current_player and the history of the shared     *)
(* board are what they were when the function was called.                  *)
(***************************************************************************)
C16_SearchRestoresBoard ==
    ReachedByPlay =>
    \A depth \in Depths, max_player \in {BLACK, WHITE}, h \in Heuristics :
        /\ LET r == minimax(Board, depth, max_player, h)
           IN r.exc = "none" => r.board = Board
        /\ LET r == alphabeta(Board, depth, NegInf, PosInf, max_player, h)
           IN r.exc = "none" => r.board = Board

(***************************************************************************)
(* C17.  On every board reached by legal play and for every depth >= 0,    *)
(* minimax and alphabeta return a score: no IllegalMoveException,          *)
(* CannotPopException or GameOverException raised by play or pop inside    *)
(* the search escapes to the caller.                                       *)
(***************************************************************************)
C17_SearchReturns ==
    ReachedByPlay =>
    \A depth \in Depths, max_player \in {BLACK, WHITE}, h \in Heuristics :
        /\ minimax(Board, depth, max_player, h).exc = "none"
        /\ alphabeta(Board, depth, NegInf, PosInf, max_player, h).exc = "none"

(***************************************************************************)
(* C18.  find_best_move returns (-1, -1) exactly when depth = 0 or the     *)
(* game is over at the root; in every other call where the player to move  *)
(* has a legal move (either max_player, either algorithm) it returns a     *)
(* coordinate of line_cap_move(board.current_player).                      *)
(***************************************************************************)
C18_BestMoveLegal ==
    ReachedByPlay =>
    \A depth \in Depths, max_player \in {BLACK, WHITE},
       search_algo \in SearchAlgos, name \in HeuristicNames :
        LET r == find_best_move(Board, depth, max_player, search_algo, name)
        IN IF depth = 0 \/ is_game_over(Board)
           THEN r.exc = "none" /\ r.move = <<-1, -1>>
           ELSE LegalMoves(Board) # {}
                => r.exc = "none" /\ r.move \in LegalMoves(Board)

\* the score find_best_move is to give the legal move m: the search at
\* depth - 1 on the position that playing m produces
MoveScore(B, m, depth, max_player, search_algo, name) ==
    search_call(Child(B, m), depth - 1, max_player, search_algo,
                heuristic_function(name)).val

(***************************************************************************)
(* C19.  When depth >= 1 and the game is not over, find_best_move returns  *)
(* a legal move whose resulting position has the maximum search score      *)
(* (minimax or alphabeta at depth - 1) over all legal moves if             *)
(* max_player = board.current_player, and the minimum such score if not.   *)
(***************************************************************************)
C19_BestMoveOptimal ==
    ReachedByPlay =>
    \A depth \in Depths \ {0}, max_player \in {BLACK, WHITE},
       search_algo \in SearchAlgos, name \in HeuristicNames :
        (~is_game_over(Board) /\ LegalMoves(Board) # {})
        => LET r == find_best_move(Board, depth, max_player, search_algo, name)
           IN /\ r.exc = "none"
              /\ r.move \in LegalMoves(Board)
              /\ MoveScore(Board, r.move, depth, max_player, search_algo, name)
                    = BestOf(Board, max_player,
                          {MoveScore(Board, m, depth, max_player, search_algo, name) :
                              m \in LegalMoves(Board)})

(***************************************************************************)
(* C20.  find_best_move is deterministic: two calls with the same board,   *)
(* depth, max_player, algorithm and heuristic return the same coordinate,  *)
(* which is the first move, in the order the legal moves are enumerated,   *)
(* that achieves the best score.                                           *)
(***************************************************************************)
C20_BestMoveFirst ==
    ReachedByPlay =>
    \A depth \in Depths \ {0}, max_player \in {BLACK, WHITE},
       search_algo \in SearchAlgos, name \in HeuristicNames :
        (~is_game_over(Board) /\ LegalMoves(Board) # {})
        => LET first == find_best_move(Board, depth, max_player, search_algo, name)
               second == find_best_move(Board, depth, max_player, search_algo, name)
               valid_moves == hot_bits_coordinates(
                                  line_cap_move(Board, current_player), size)
               best == BestOf(Board, max_player,
                          {MoveScore(Board, m, depth, max_player, search_algo, name) :
                              m \in LegalMoves(Board)})
           IN /\ first.exc = "none"
              /\ second = first
              /\ \E i \in DOMAIN valid_moves :
                    /\ first.move = valid_moves[i]
                    /\ MoveScore(Board, valid_moves[i], depth, max_player,
                                 search_algo, name) = best
                    /\ \A j \in 1 .. i - 1 :
                          MoveScore(Board, valid_moves[j], depth, max_player,
                                    search_algo, name) # best

(***************************************************************************)
(* Vocabulary of the properties of a Bitboard.                             *)
(***************************************************************************)
\* the offset (dx, dy) of a direction: north is up, towards row 0
Offset(dir) ==
    CASE dir = "NORTH" -> <<0, -1>>
      [] dir = "SOUTH" -> <<0, 1>>
      [] dir = "EAST" -> <<1, 0>>
      [] dir = "WEST" -> <<-1, 0>>
      [] dir = "NORTH_EAST" -> <<1, -1>>
      [] dir = "NORTH_WEST" -> <<-1, -1>>
      [] dir = "SOUTH_EAST" -> <<1, 1>>
      [] dir = "SOUTH_WEST" -> <<-1, 1>>

\* the cells of bits moved by the offset d, those that leave the board dropped
Moved(bits, d, n) ==
    {Cell(XOf(c, n) + d[1], YOf(c, n) + d[2], n) :
        c \in {b \in bits : OnBoard(XOf(b, n) + d[1], YOf(b, n) + d[2], n)}}

(***************************************************************************)
(* C21.  For each of the 8 directions d with offset (dx, dy) and every     *)
(* bitboard b of size N, b.shift(d) has the cell (x+dx, y+dy) set iff b    *)
(* has the cell (x, y) set and (x+dx, y+dy) lies on the board: a bit       *)
(* shifted off an edge vanishes and does not reappear in another row or    *)
(* column.                                                                 *)
(***************************************************************************)
C21_Shift ==
    \A i \in DOMAIN Direction :
        shift(bitboard.bits, Direction[i], bitboard.size)
            = Moved(bitboard.bits, Offset(Direction[i]), bitboard.size)

\* a bit sits on the east edge and one on the north edge of a Bitboard that
\* has been shifted: shifting it east, north-east or north drops a bit
C21_Witness ==
    /\ last.op = "shift"
    /\ bitboard.size > 1
    /\ \E b \in bitboard.bits : XOf(b, bitboard.size) = bitboard.size - 1
    /\ \E b \in bitboard.bits : YOf(b, bitboard.size) = 0
    /\ popcount(shift(bitboard.bits, "NORTH_EAST", bitboard.size))
          < popcount(bitboard.bits)

(***************************************************************************)
(* C22.  Every Bitboard that set, shift, AND, OR or XOR produce from       *)
(* bitboards whose bits lie inside the N*N mask has bits & ~mask = 0       *)
(* again, and the black and white bitboards of a board have                *)
(* bits & ~mask = 0 in every state reached by play and pop.                *)
(***************************************************************************)
InMask(bits, n) == bits \ mask(n) = {}

C22_Masked ==
    /\ InMask(black, size)
    /\ InMask(white, size)
    /\ \A bits \in {black, white, empty_mask(Board)} :
          /\ \A i \in DOMAIN Direction :
                InMask(shift(bits, Direction[i], size), size)
          /\ \A x \in Coord(size), y \in Coord(size), value \in BOOLEAN :
                InMask(Bitboard_set([size |-> size, bits |-> bits],
                                    x, y, value).bits, size)
          /\ \A o \in {black, white, empty_mask(Board)} :
                /\ InMask(bitboard_and(bits, o), size)
                /\ InMask(bitboard_or(bits, o), size)
                /\ InMask(bitboard_xor(bits, o), size)

\* after a move, a disc lies on the last row and one on the east edge: the
\* shifts to the south and to the east push bits past the mask and the row
C22_Witness ==
    /\ last.op = "play" /\ last.exc = "none"
    /\ \E b \in black \cup white : YOf(b, size) = size - 1
    /\ \E b \in black \cup white : XOf(b, size) = size - 1
    /\ InMask(black, size) /\ InMask(white, size)

(***************************************************************************)
(* C23.  Bitboard.get(x, y) and Bitboard.set(x, y, v) raise IndexError for *)
(* every (x, y) with x or y outside [0, size); for (x, y) inside they read *)
(* or write exactly the bit y*size + x, and set leaves every other bit     *)
(* unchanged.                                                              *)
(***************************************************************************)
C23_IndexChecked ==
    \A x \in BitCoord(bitboard.size), y \in BitCoord(bitboard.size) :
        LET got == Bitboard_get(bitboard, x, y)
            bit_idx == y * bitboard.size + x
        IN IF ~OnBoard(x, y, bitboard.size)
           THEN /\ got.exc = "IndexError"
                /\ \A value \in BOOLEAN :
                      Bitboard_set(bitboard, x, y, value)
                          = [bits |-> bitboard.bits, exc |-> "IndexError"]
           ELSE /\ got = [val |-> bit_idx \in bitboard.bits, exc |-> "none"]
                /\ Bitboard_set(bitboard, x, y, TRUE)
                      = [bits |-> bitboard.bits \cup {bit_idx}, exc |-> "none"]
                /\ Bitboard_set(bitboard, x, y, FALSE)
                      = [bits |-> bitboard.bits \ {bit_idx}, exc |-> "none"]

(***************************************************************************)
(* Vocabulary of the properties of the heuristics.                         *)
(***************************************************************************)
\* 100 * num / den truncated to an integer, for den > 0
Truncated(num, den) ==
    CHOOSE q \in -100 * (IF num < 0 THEN 0 - num ELSE num) ..
                 100 * (IF num < 0 THEN 0 - num ELSE num) :
        /\ (num >= 0) => (q * den <= 100 * num /\ 100 * num < (q + 1) * den)
        /\ (num < 0) => ((q - 1) * den < 100 * num /\ 100 * num <= q * den)

\* the corners a color holds, its discs and its legal moves
CornerCells(n) == {0, n - 1, n * (n - 1), n * n - 1}
CornersOf(B, c) == Cardinality(Bits(B, c) \cap CornerCells(B.size))
DiscsOf(B, c) == Cardinality(Bits(B, c))
MovesOf(B, c) == Cardinality(line_cap_move(B, c))

(***************************************************************************)
(* C24.  On every board reached by legal play and for each max_player,     *)
(* corners_captured_heuristic, coin_parity_heuristic and                   *)
(* mobility_heuristic return an integer in [-100, 100], and each returns   *)
(* 0 when the two counts it compares are equal or both zero.               *)
(***************************************************************************)
C24_HeuristicRange ==
    \A max_player \in {BLACK, WHITE} :
        /\ \A h \in Heuristics \ {"all_in_one_heuristic"} :
              heuristic_call(h, Board, max_player) \in -100 .. 100
        /\ CornersOf(Board, BLACK) = CornersOf(Board, WHITE)
              => corners_captured_heuristic(Board, max_player) = 0
        /\ DiscsOf(Board, BLACK) = DiscsOf(Board, WHITE)
              => coin_parity_heuristic(Board, max_player) = 0
        /\ MovesOf(Board, BLACK) = MovesOf(Board, WHITE)
              => mobility_heuristic(Board, max_player) = 0

\* a heuristic has just scored a board on which one color holds a corner
\* and more discs than the other: the scores are not all zero
C24_Witness ==
    /\ last.op = "coin_parity_heuristic"
    /\ last.val # 0
    /\ CornersOf(Board, BLACK) # CornersOf(Board, WHITE)
    /\ corners_captured_heuristic(Board, BLACK) # 0

(***************************************************************************)
(* C25.  mobility_heuristic(board, max_player) is                          *)
(* 100 * (m_max - m_min) / (m_max + m_min) truncated to an integer, where  *)
(* m_BLACK = popcount(line_cap_move(BLACK)), m_WHITE =                     *)
(* popcount(line_cap_move(WHITE)), m_max is the count of max_player and    *)
(* m_min that of its opponent; it is 0 when both counts are 0.             *)
(***************************************************************************)
C25_Mobility ==
    \A max_player \in {BLACK, WHITE} :
        LET m_max == MovesOf(Board, max_player)
            m_min == MovesOf(Board, Invert(max_player))
        IN mobility_heuristic(Board, max_player)
              = IF m_max + m_min = 0 THEN 0
                ELSE Truncated(m_max - m_min, m_max + m_min)

(***************************************************************************)
(* C26.  Antisymmetry of the heuristics: on every board with at least one  *)
(* disc, each of corners_captured, coin_parity, mobility and all_in_one    *)
(* gives h(board, BLACK) = -h(board, WHITE).                               *)
(***************************************************************************)
C26_Antisymmetry ==
    black \cup white # {}
    => \A h \in Heuristics :
          heuristic_call(h, Board, BLACK) = 0 - heuristic_call(h, Board, WHITE)

\* a heuristic has just given a score that is not zero, on a board where the
\* difference of the discs is not a multiple of their number
C26_Witness ==
    /\ last.op \in Heuristics
    /\ last.val # 0
    /\ (100 * (DiscsOf(Board, BLACK) - DiscsOf(Board, WHITE)))
          % (DiscsOf(Board, BLACK) + DiscsOf(Board, WHITE)) # 0
    /\ coin_parity_heuristic(Board, BLACK) < 0

(***************************************************************************)
(* C29.  From any state, restart() sets black and white to the four-disc   *)
(* starting pattern of the board's size, sets current_player to BLACK and  *)
(* empties the history, so that a following pop() fails with               *)
(* CannotPopException.                                                     *)
(***************************************************************************)
C29_Restart ==
    last.op = "restart"
    => /\ black = init_black(size)
       /\ white = init_white(size)
       /\ black = {coords_to_bit_idx(size \div 2 - 1, size \div 2, size),
                   coords_to_bit_idx(size \div 2, size \div 2 - 1, size)}
       /\ current_player = BLACK
       /\ history = <<>>
       /\ pop(Board).exc = "CannotPopException"
       /\ pop(Board).board = Board

\* restart has just acted on an 8x8 game that had been ended by
\* force_game_over
C29_Witness ==
    /\ last.op = "restart"
    /\ forced_game_over
    /\ size = 8

(***************************************************************************)
(* C30.  For every position and player, every cell of                      *)
(* line_cap_move(player) is empty, set in neither bitboard; hence a board  *)
(* with no empty cell, such as one tiled with one color except a single    *)
(* corner of the other color, reports is_game_over() = True.               *)
(***************************************************************************)
C30_MovesOnEmptyCells ==
    /\ \A player \in {BLACK, WHITE} :
          line_cap_move(Board, player) \cap (black \cup white) = {}
    /\ (black \cup white = mask(size)) => is_game_over(Board)

\* the last empty cell of an 8x8 board tiled with BLACK except the corner
\* (7, 7) has just been set: the board of the game_over_board fixture
C30_Witness ==
    /\ last.op = "set"
    /\ size = 8
    /\ black = mask(8) \ {63}
    /\ white = {63} \cup init_white(8)
    /\ is_game_over(Board)

(***************************************************************************)
(* C27.  Round trip of the save format: for every board B reached from a   *)
(* fresh board by legal play, games with automatic passes and finished     *)
(* games included, BoardParser(B.export()).parse() succeeds and yields a   *)
(* board with the same black and white bitboards and the same              *)
(* current_player as B.                                                    *)
(***************************************************************************)
C27_RoundTrip ==
    (last.op = "parse" /\ save = export(Board))
    => /\ last.exc = "none"
       /\ last.board.black = black
       /\ last.board.white = white
       /\ last.board.current_player = current_player

(***************************************************************************)
(* C28.  When the save text has a history section, parse replays the       *)
(* recorded moves from a fresh board and fails with a parse error unless   *)
(* the replayed position matches the grid and the side to move written in  *)
(* the text: it never returns a board that differs from the grid.          *)
(***************************************************************************)
C28_GridVerified ==
    (last.op = "parse" /\ save.history # <<>> /\ last.exc = "none")
    => /\ last.board.black = parse_board(save).board.black
       /\ last.board.white = parse_board(save).board.white
       /\ last.board.current_player = save.player

(***************************************************************************)
(* C31.  After every non-pass play(x, y) that returns normally, with       *)
(* neither IllegalMove nor GameOver, the new current_player has at least   *)
(* one legal move and is_game_over() is false.                             *)
(***************************************************************************)
C31_PlayLeavesMove ==
    \A m \in LegalMoves(Board) :
        LET r == play(Board, m[1], m[2])
        IN r.exc = "none"
           => /\ line_cap_move(r.board, r.board.current_player) # {}
              /\ ~is_game_over(r.board)

(***************************************************************************)
(* C31, amended.  After every non-pass play(x, y) that returns normally,   *)
(* the new current_player has at least one legal move, and is_game_over()  *)
(* is false unless force_game_over() had been called on the board.         *)
(***************************************************************************)
C31_PlayLeavesMoveUnlessForced ==
    \A m \in LegalMoves(Board) :
        LET r == play(Board, m[1], m[2])
        IN r.exc = "none"
           => /\ line_cap_move(r.board, r.board.current_player) # {}
              /\ HasRuleMove(r.board, r.board.current_player)
              /\ is_game_over(r.board) <=> forced_game_over

\* a play has just returned normally after passing the opponent: the mover
\* is to move again, has a move, and the game is not over
C31_Witness ==
    /\ last.op = "play"
    /\ last.exc = "none"
    /\ Len(history) > base + 1
    /\ IsPassEntry(history[Len(history)])
    /\ line_cap_move(Board, current_player) # {}
    /\ ~is_game_over(Board)

(***************************************************************************)
(* C32.  For every reachable board and legal move, play(x, y) followed by  *)
(* as many pop() calls as play appended history entries (1, or 2 when an   *)
(* automatic pass was recorded) restores black, white, current_player and  *)
(* the history exactly, also when play signalled GameOver.                 *)
(***************************************************************************)
\* pop() called k times, stopping at the first call that raises
RECURSIVE PopTimes(_, _)
PopTimes(B, k) ==
    IF k = 0 THEN [board |-> B, exc |-> "none"]
    ELSE IF pop(B).exc # "none" THEN pop(B)
         ELSE PopTimes(pop(B).board, k - 1)

C32_PlayPopsInverse ==
    \A m \in LegalMoves(Board) :
        LET r == play(Board, m[1], m[2])
            appended == Len(r.board.history) - Len(history)
            undone == PopTimes(r.board, appended)
        IN /\ r.exc \in {"none", "GameOverException"}
           /\ appended \in {1, 2}
           /\ appended = 2 <=> IsPassEntry(r.board.history[Len(r.board.history)])
           /\ undone.exc = "none"
           /\ undone.board.black = black
           /\ undone.board.white = white
           /\ undone.board.current_player = current_player
           /\ undone.board.history = history

\* a play has just ended the game after recording the move and an automatic
\* pass, and two pops bring back the board it was played on
C32_Witness ==
    /\ last.op = "play"
    /\ last.exc = "GameOverException"
    /\ Len(history) = base + 2
    /\ IsPassEntry(history[Len(history)])
    /\ PopTimes(Board, 2).exc = "none"
    /\ Len(PopTimes(Board, 2).board.history) = base
    /\ PopTimes(Board, 2).board.black # black
    /\ PopTimes(Board, 1).board.black = black

(***************************************************************************)
(* C33.  Forced pass in the searches: when the player to move has no legal *)
(* move but the game is not over, minimax and alphabeta with depth >= 1    *)
(* recurse with depth - 1 on the unchanged board with the same player to   *)
(* move: the result is the value at depth - 1 of that same position and no *)
(* pass entry is added to the history.                                     *)
(***************************************************************************)
C33_ForcedPass ==
    ForcedPass(Board)
    => \A depth \in 1 .. MaxDepth, max_player \in {BLACK, WHITE},
          h \in Heuristics :
          /\ LET r == minimax(Board, depth, max_player, h)
             IN /\ r.exc = "none"
                /\ r.val = minimax(Board, depth - 1, max_player, h).val
                /\ r.board = Board
          /\ LET r == alphabeta(Board, depth, NegInf, PosInf, max_player, h)
             IN /\ r.exc = "none"
                /\ r.val = alphabeta(Board, depth - 1, NegInf, PosInf,
                                     max_player, h).val
                /\ r.board = Board

\* a search has just returned a score that is not zero on a board whose
\* player to move must pass while the opponent has a move
C33_Witness ==
    /\ last.op \in {"minimax", "alphabeta"}
    /\ last.exc = "none"
    /\ last.val # 0
    /\ ForcedPass(Board)
    /\ line_cap_move(Board, Invert(current_player)) # {}

(***************************************************************************)
(* C34.  After restart() the board behaves as a freshly constructed one:   *)
(* is_game_over() is false, even if force_game_over() had been called      *)
(* before the restart.                                                     *)
(***************************************************************************)
C34_RestartFresh ==
    last.op = "restart"
    => /\ ~is_game_over(Board)
       /\ Board = NewBoard(size)

(***************************************************************************)
(* C35.  The legacy OthelloBitboard.line_cap(x, y, P) returns the same     *)
(* mask as OthelloBoard.line_cap(x, y, P) on the same black and white      *)
(* position for every legal move: each direction is walked from the single *)
(* placed cell only, and a run is captured only when it is contiguous.     *)
(***************************************************************************)
C35_LegacyLineCap ==
    \A m \in LegalMoves(Board) :
        legacy_line_cap(Board, m[1], m[2], current_player)
            = line_cap(Board, m[1], m[2], current_player)

(***************************************************************************)
(* C38.  get_remaining_time(player), for the player whose clock is         *)
(* running, returns that player's remaining time at the last start_timer   *)
(* or change_player minus the time elapsed since that call, clamped at 0,  *)
(* however many times get_remaining_time or is_time_up was queried in      *)
(* between; for the other player it returns the stored value unchanged.    *)
(***************************************************************************)
C38_RemainingTime ==
    last.op = "get_remaining_time" =>
        IF timer.start_time # 0 /\ last.player = timer.current_player
        THEN last.val = Max(0, granted - (now - timer.start_time))
        ELSE /\ last.val = last.stored
             /\ timer.remaining_time[last.player] = last.stored

(***************************************************************************)
(* C36.  check_game_over returns True for lack of moves only if neither    *)
(* player has a valid move at that point of the game: a no-move flag       *)
(* recorded for one player on an earlier turn does not make a later turn   *)
(* on which only the other player is blocked end the game.                 *)
(***************************************************************************)
C36_GameOverBothBlocked ==
    (last.op = "check_game_over" /\ last.val) =>
        /\ line_cap_move(Board, BLACK) = {}
        /\ line_cap_move(Board, WHITE) = {}

(***************************************************************************)
(* C37.  The loop of NormalGame.play continues until the game is over or   *)
(* the user quits: once check_game_over has returned True the loop         *)
(* eventually terminates instead of displaying the board again forever.    *)
(***************************************************************************)
C37_LoopTerminates ==
    (last.op = "check_game_over" /\ last.val)
        ~> (game.pc \notin {"display", "check", "input", "rules"})

(***************************************************************************)
(* C39.  In OthelloCLI blitz mode, after every successfully processed      *)
(* move the running player of the blitz timer is the color whose turn it   *)
(* is on the board, including when the opponent was passed automatically   *)
(* and the same player moves again.                                        *)
(***************************************************************************)
C39_TimerFollowsBoard ==
    (last.op = "process_move" /\ last.val) =>
        timer.current_player = color_name(current_player)

====
